---- MODULE Spec2Model ----
(***************************************************************************)
(* MARS flight-system firmware: the HTTP command-ingestion and token       *)
(* handlers of BroadcastedServer (Comms/_broadcast.cpp), the register      *)
(* store they write (SharedMemory), the logger task that reads it, and the  *)
(* legacy array store PTAM (deprecated/temp_access_mem.cpp); the firmware  *)
(* update handler, the telemetry handlers and the packData wire format;    *)
(* the fan relay (HALX/Fan_cooling), the servo position tracking            *)
(* (HALX/Servo) and I2CTransfer::do_transfer (I2C_Slave/i2c_slave.hpp).     *)
(*                                                                         *)
(* Strings are sequences of one-character strings; the byte 0 is NUL.      *)
(* A double is a fixed-point number: an integer count of units of          *)
(* 10^-FracDigits (with FracDigits = 1, 2.5 is 25 and 2 is 20).            *)
(***************************************************************************)
EXTENDS Integers, Sequences, FiniteSets, TLC

VARIABLES
    store,        \* SharedMemory: one keyed mapping per value kind
    pc,           \* position of the server task inside the current handler
    handler,      \* which handler is running: SWP, SYS, STATE, AUTH, TOKEN
    total_len,    \* req->content_len
    body,         \* the bytes the client sends as the request body
    received,     \* bytes written to received_data so far
    called,       \* httpd_req_recv was called by this request
    recv_fail,    \* <<r>>: httpd_req_recv returned r, a value <= 0 other than the timeout code
    flightConfig, \* TOKEN: the value verifyFlightConfiguration returned
    values,       \* the decoded std::vector<double>
    idx,          \* position of the decoded sequence being applied (1-based)
    cur,          \* the value read at that position
    token_saved,  \* AUTH: the string read from arm_token
    packed_data,  \* TOKEN: the generated token
    resp,         \* the bodies passed to httpd_resp_send by this request
    ret,          \* the handler's return value, NoRet while it runs
    pre,          \* the store when the handler was entered
    oob,          \* an element past the end of the decoded sequence was read
    served,       \* command, token and update requests the server task has accepted so far
    issued,       \* <<t>>: t is the token the most recent successful issue returned
    rpc,          \* position of the logger task
    rDescr,       \* logger: value read from stateDescript
    rState,       \* logger: value read from state
    rWing,        \* logger: value read from the wing register it last read
    arrays,       \* legacy store: floatingP, eight_bit, thirtytwo_bit, character
    LENs,         \* legacy store: floatingP_LEN .. character_LEN
    heap,         \* legacy store: the number text held at the addresses itoa wrote
    lpc,          \* legacy store: "run", or "crashed" after a trapping access
    lcall,        \* legacy store: the last call, [op, kind, key, found, stray]
    lret,         \* legacy store: the value the last call returned
    added,        \* legacy store: <<kind, key text, value>> of every add made
    lops,         \* legacy store: calls made so far
    remaining,    \* OTA: bytes of the image still to receive
    written,      \* OTA: bytes esp_ota_write has accepted for this request
    boot,         \* the partition the bootloader will start: "running" or "update"
    ota_calls,    \* OTA: what the handler did after its loop, <<call, result>> in order
    packs,        \* the two most recent packData calls, in order
    live,         \* objects a handler has allocated with new and not deleted
    fanIsOn,      \* fan relay: the flag fanIsOn
    relay,        \* fan relay: the level last written to RELAY_GPIO_PIN
    relay_writes, \* fan relay: gpio_set_level calls made so far
    fan_ops,      \* fan relay: the calls made so far, <<operation, temperature>>
    SERVO_POS,    \* servo: SERVO_POS_1 .. SERVO_POS_4, indexed by pin 0..3
    servo_call,   \* servo: the last servo_control call, [pin, target, ret]
    cmd_link,     \* I2C transfer: the command link, "none", "live" or "destroyed"
    xpc,          \* I2C transfer: position inside do_transfer
    steps,        \* I2C transfer: what was done to the command link, in order
    xcall,        \* I2C transfer: the transfer object and arguments, [kind, num, addr]
    xret          \* I2C transfer: <<v>> returned by do_transfer, <<>> before and on a throw

vars == <<store, pc, handler, total_len, body, received, called, recv_fail, flightConfig, values,
          idx, cur, token_saved, packed_data, resp, ret, pre, oob, served, issued,
          rpc, rDescr, rState, rWing,
          arrays, LENs, heap, lpc, lcall, lret, added, lops,
          remaining, written, boot, ota_calls, packs, live,
          fanIsOn, relay, relay_writes, fan_ops, SERVO_POS, servo_call,
          cmd_link, xpc, steps, xcall, xret>>

fan == <<fanIsOn, relay, relay_writes, fan_ops>>

servo == <<SERVO_POS, servo_call>>

i2c == <<cmd_link, xpc, steps, xcall, xret>>

periph == <<fan, servo, i2c>>

\* everything but the fan, the servos and the I2C transfer
firmware == <<store, pc, handler, total_len, body, received, called, recv_fail, flightConfig,
              values, idx, cur, token_saved, packed_data, resp, ret, pre, oob, served, issued,
              rpc, rDescr, rState, rWing,
              arrays, LENs, heap, lpc, lcall, lret, added, lops,
              remaining, written, boot, ota_calls, packs, live>>

flash == <<remaining, written, boot, ota_calls>>

legacy == <<arrays, LENs, heap, lpc, lcall, lret, added, lops>>

server == <<pc, handler, total_len, body, received, called, recv_fail, flightConfig, values,
            idx, cur, token_saved, packed_data, resp, ret, pre, oob>>

reader == <<rpc, rDescr, rState, rWing>>

----------------------------------------------------------------------------
(* Bounds of the model *)

\* command values on the wire are the multiples 0, 0.5, .. of one half up to MaxVal / 2
MaxVal == 2
\* decimal digits kept after the point of a double
FracDigits == 1
\* tokens the generator can produce
NumTokens == 2
\* requests served in one behaviour
MaxRequests == 2
\* calls made to the legacy array store in one behaviour
\* objects left allocated after which the leaking handlers are no longer followed
MaxLive == 1

\* calls made to the fan relay component
MaxFanOps == 3

MaxLegacyOps == 3

(* Program constants *)

MAX_DATA_LEN == 100
TOKEN_LEN == 6
ARMED_CODE == 2
NUM_FIELDS == 5

----------------------------------------------------------------------------
(* Characters and strings *)

NUL == "NUL"
Digits == <<"0", "1", "2", "3", "4", "5", "6", "7", "8", "9">>
NumericStart == {Digits[i] : i \in 1..10} \cup {".", "-"}

S_PREP == <<"P", "R", "E", "P">>
S_ARMED == <<"A", "R", "M", "E", "D">>
S_BYPASS == <<"B", "Y", "P", "A", "S", "S">>
S_SUCCESS == <<"S", "T", "A", "T", "E", "-", "C", "H", "A", "N", "G", "E", "-",
               "S", "U", "C", "C", "E", "S", "S">>
S_FAIL == <<"S", "T", "A", "T", "E", "-", "C", "H", "A", "N", "G", "E", "-",
            "F", "A", "I", "L">>

\* the bodies of the firmware-update replies
S_PROTOCOL == <<"P", "r", "o", "t", "o", "c", "o", "l", " ", "E", "r", "r",
    "o", "r">>
S_FLASH == <<"F", "l", "a", "s", "h", " ", "E", "r", "r", "o", "r">>
S_VALIDATION == <<"V", "a", "l", "i", "d", "a", "t", "i", "o", "n", " ",
    "/", " ", "A", "c", "t", "i", "v", "a", "t", "i", "o", "n", " ", "E",
    "r", "r", "o", "r">>
S_COMPLETE == <<"F", "i", "r", "m", "w", "a", "r", "e", " ", "u", "p", "d",
    "a", "t", "e", " ", "c", "o", "m", "p", "l", "e", "t", "e", ",", " ",
    "r", "e", "b", "o", "o", "t", "i", "n", "g", " ", "n", "o", "w", "!",
    "\n">>

NoRet == "NoRet"
ESP_OK == "ESP_OK"
ESP_FAIL == "ESP_FAIL"

Min(a, b) == IF a < b THEN a ELSE b

\* index of the first element of s satisfying membership in S, 0 when none
RECURSIVE FirstIn(_, _, _)
FirstIn(s, S, i) ==
    IF i > Len(s) THEN 0
    ELSE IF s[i] \in S THEN i
    ELSE FirstIn(s, S, i + 1)

\* a char array read as a C string: the bytes before the first NUL
CStr(s) ==
    LET z == FirstIn(s, {NUL}, 1) IN
    IF z = 0 THEN s ELSE SubSeq(s, 1, z - 1)

DigitVal(c) == CHOOSE d \in 0..9 : Digits[d + 1] = c
IsDigit(c) == \E d \in 1..10 : Digits[d] = c

----------------------------------------------------------------------------
(* Wire grammar: BroadcastedServer::extractValuesAndIds *)

\* std::getline(ss, item, '_') until the stream is exhausted
RECURSIVE SplitItems(_)
SplitItems(s) ==
    IF s = <<>> THEN <<>>
    ELSE LET p == FirstIn(s, {"_"}, 1) IN
         IF p = 0 THEN <<s>>
         ELSE <<SubSeq(s, 1, p - 1)>> \o SplitItems(SubSeq(s, p + 1, Len(s)))

Scale == 10 ^ FracDigits

\* number of consecutive digits of t from position i on
RECURSIVE RunLen(_, _)
RunLen(t, i) ==
    IF i > Len(t) \/ ~IsDigit(t[i]) THEN 0 ELSE 1 + RunLen(t, i + 1)

\* value of the n digits of t from position i on, as a whole number
RECURSIVE DigitRun(_, _, _, _)
DigitRun(t, i, n, acc) ==
    IF n = 0 THEN acc
    ELSE DigitRun(t, i + 1, n - 1, acc * 10 + DigitVal(t[i]))

\* std::stod on a text of the shape [-]digits[.digits]: <<v>>, or <<>> when it
\* throws (no digit to convert); conversion stops at the first other character
Stod(t) ==
    LET neg == Len(t) >= 1 /\ t[1] = "-"
        i0 == IF neg THEN 2 ELSE 1
        ni == RunLen(t, i0)
        dot == i0 + ni <= Len(t) /\ t[i0 + ni] = "."
        nf == IF dot THEN RunLen(t, i0 + ni + 1) ELSE 0
        kept == Min(nf, FracDigits)
        whole == DigitRun(t, i0, ni, 0)
        frac == DigitRun(t, i0 + ni + 1, kept, 0) * 10 ^ (FracDigits - kept)
        mag == whole * Scale + frac
    IN  IF ni + nf = 0 THEN <<>>
        ELSE IF neg THEN <<0 - mag>> ELSE <<mag>>

\* item.substr(0, item.find_first_of("0123456789.-"))
ItemId(item) ==
    LET p == FirstIn(item, NumericStart, 1) IN
    IF p = 0 THEN item ELSE SubSeq(item, 1, p - 1)

\* std::stod(item.substr(item.find_first_of("0123456789.-"))): <<v>>, or <<>>
\* when substr(npos) or stod throws
ItemValue(item) ==
    LET p == FirstIn(item, NumericStart, 1) IN
    IF p = 0 THEN <<>> ELSE Stod(SubSeq(item, p, Len(item)))

\* extractValuesAndIds leaves by an exception on this data
extractThrows(data) ==
    LET items == SplitItems(data) IN
    \E i \in 1..Len(items) : ItemValue(items[i]) = <<>>

\* the values vector filled from data
extractValues(data) ==
    LET items == SplitItems(data) IN
    [i \in 1..Len(items) |-> ItemValue(items[i])[1]]

\* the ids vector filled from data
extractIds(data) ==
    LET items == SplitItems(data) IN
    [i \in 1..Len(items) |-> ItemId(items[i])]

\* the n decimal digits of f, most significant first
RECURSIVE FracText(_, _)
FracText(f, n) ==
    IF n = 0 THEN <<>>
    ELSE <<Digits[(f \div 10 ^ (n - 1)) + 1]>> \o FracText(f % 10 ^ (n - 1), n - 1)

\* significant digits operator<< writes for a float (the stream's default precision)
SIG_DIGITS == 6

\* the decimal digits of a natural number
RECURSIVE NatText(_)
NatText(n) ==
    IF n < 10 THEN <<Digits[n + 1]>> ELSE NatText(n \div 10) \o <<Digits[(n % 10) + 1]>>

RECURSIVE NumDigits(_)
NumDigits(n) == IF n < 10 THEN 1 ELSE 1 + NumDigits(n \div 10)

\* a digit text without its trailing zeros
RECURSIVE StripZeros(_)
StripZeros(t) ==
    IF t # <<>> /\ t[Len(t)] = "0" THEN StripZeros(SubSeq(t, 1, Len(t) - 1)) ELSE t

\* packed << value for a float value: at most SIG_DIGITS significant digits,
\* rounded to nearest (ties to even), no trailing zeros, no "." for a whole
\* number. Defined for magnitudes below 10^SIG_DIGITS, where no exponent is
\* written, and for values whose dropped part is not a decimal tie that the
\* float cannot hold exactly.
FloatText(v) ==
    LET a == IF v < 0 THEN 0 - v ELSE v
        D == IF a \div Scale = 0 THEN 0 ELSE NumDigits(a \div Scale)
        k == Min(FracDigits, SIG_DIGITS - D)
        unit == 10 ^ (FracDigits - k)
        q == a \div unit
        r == a % unit
        m == IF 2 * r > unit \/ (2 * r = unit /\ q % 2 = 1) THEN q + 1 ELSE q
        f == m % (10 ^ k)
    IN  (IF v < 0 THEN <<"-">> ELSE <<>>)
            \o NatText(m \div (10 ^ k))
            \o (IF f = 0 THEN <<>> ELSE <<".">> \o StripZeros(FracText(f, k)))

\* BroadcastedServer::packData
packDataCounted(id1, value1, id2, value2, id3, value3, id4, value4) ==
    id1 \o FloatText(value1 + served * Scale) \o <<"_">> \o id2 \o FloatText(value2)
        \o <<"_">> \o id3 \o FloatText(value3) \o <<"_">> \o id4 \o FloatText(value4)
packData(id1, value1, id2, value2, id3, value3, id4, value4) ==
    id1 \o FloatText(value1) \o <<"_">> \o id2 \o FloatText(value2)
        \o <<"_">> \o id3 \o FloatText(value3) \o <<"_">> \o id4 \o FloatText(value4)

----------------------------------------------------------------------------
(* Register store: SharedMemory *)

EmptyMap == [k \in {} |-> 0]
Put(f, k, v) == [x \in (DOMAIN f) \cup {k} |-> IF x = k THEN v ELSE f[x]]
Del(f, k) == [x \in (DOMAIN f) \ {k} |-> f[x]]

storeDouble(s, k, v) == [s EXCEPT !.dbl = Put(@, k, v)]
storeInt(s, k, v) == [s EXCEPT !.int = Put(@, k, v)]
storeString(s, k, v) == [s EXCEPT !.str = Put(@, k, v)]

\* clearData takes the key alone: the key leaves every kind's mapping
clearKinds(s, k) ==
    [dbl |-> IF k \in DOMAIN s.dbl THEN EmptyMap ELSE s.dbl,
     int |-> IF k \in DOMAIN s.int THEN EmptyMap ELSE s.int,
     str |-> IF k \in DOMAIN s.str THEN EmptyMap ELSE s.str]
clearData(s, k) == [dbl |-> Del(s.dbl, k), int |-> Del(s.int, k), str |-> Del(s.str, k)]

getLastDouble(s, k) == IF k \in DOMAIN s.dbl THEN s.dbl[k] ELSE 0
getLastInt(s, k) == IF k \in DOMAIN s.int THEN s.int[k] ELSE 0
getLastString(s, k) == IF k \in DOMAIN s.str THEN s.str[k] ELSE <<>>

----------------------------------------------------------------------------
(* State machine: STATE::updateState *)

PREP == 1
ARMED == 2
BYPASS == 3

StateLabel(st) ==
    CASE st = PREP -> S_PREP
      [] st = ARMED -> S_ARMED
      [] st = BYPASS -> S_BYPASS

\* one transition writes the code and the label as a single operation
updateState(s, st) ==
    storeString(storeInt(clearData(clearData(s, "state"), "stateDescript"),
                         "state", st),
                "stateDescript", StateLabel(st))

BootStore ==
    updateState([dbl |-> EmptyMap, int |-> EmptyMap, str |-> EmptyMap], PREP)


----------------------------------------------------------------------------
(* Requests the client can send *)

FieldIds == <<"a", "b", "c", "d", "e", "f">>
Alnum == <<"a", "b", "c", "d", "e", "f">>

\* the text of a double 0 <= v < 10 as the client writes it: "2", "2.5"
NumText(v) ==
    <<Digits[(v \div Scale) + 1]>>
        \o (IF v % Scale = 0 THEN <<>> ELSE <<".">> \o FracText(v % Scale, FracDigits))

Half == Scale \div 2

\* "<id1><v1>_<id2><v2>_..." for a sequence of values
RECURSIVE Encode(_, _)
Encode(vals, i) ==
    IF i > Len(vals) THEN <<>>
    ELSE (IF i > 1 THEN <<"_">> ELSE <<>>)
         \o <<FieldIds[i]>> \o NumText(vals[i]) \o Encode(vals, i + 1)

\* positions a five-field command sets together
Patterns == {{1, 2, 3}, {3, 4, 5}}

WireVals == {k * Half : k \in 0..MaxVal}

Commands5 ==
    {[i \in 1..NUM_FIELDS |-> IF i \in P THEN v ELSE 0] : P \in Patterns, v \in WireVals}

\* commands with fewer fields than the handlers consume
ShortCmds == {<<>>, <<Scale, 0, Scale>>}

\* a body with an item that holds no numeric character
Malformed == <<"x">>

IngestBodies == {Encode(c, 1) : c \in Commands5 \cup ShortCmds} \cup {Malformed}

\* first values 0, 1, 2, 3, 4 and the fractions 0.5 and 2.5
StateVals == {k * Scale : k \in 0..4} \cup {Half, 2 * Scale + Half}

\* five-field commands whose other positions are 0, two whose other positions
\* are 3, and a one-field command
StateCmds ==
    {[i \in 1..NUM_FIELDS |-> IF i = 1 THEN v ELSE 0] : v \in StateVals}
        \cup {[i \in 1..NUM_FIELDS |-> IF i = 1 THEN v ELSE 3 * Scale] : v \in {0, Scale}}
        \cup {<<2 * Scale>>}

StateBodies == {Encode(c, 1) : c \in StateCmds}

\* generateRandomAlphanumericToken(seed1, seed2, 6)
TokenShort(i) == [j \in 1..(TOKEN_LEN - 1) |-> IF j = TOKEN_LEN - 1 THEN Alnum[i] ELSE "a"]
Token(i) == [j \in 1..TOKEN_LEN |-> IF j = TOKEN_LEN THEN Alnum[i] ELSE "a"]
Tokens == {Token(i) : i \in 1..NumTokens}

AuthBodies ==
    Tokens \cup {t \o <<NUL, "x">> : t \in Tokens}
           \cup {SubSeq(t, 1, TOKEN_LEN - 1) : t \in Tokens}
           \cup {<<>>}

\* declared lengths at or above the cap
OversizeLens == {MAX_DATA_LEN, MAX_DATA_LEN + 1}

\* what a read past the end of the vector can yield when it does not trap
GarbageVals == {0, 7 * Scale}

----------------------------------------------------------------------------
(* Legacy array store: PTAM (deprecated/temp_access_mem.cpp)                *)
(*                                                                          *)
(* Each kind is a static array of char* holding (key, value) pointer pairs. *)
(* A pointer is an address: 0 is the null pointer.                          *)

\* the four arrays, in declaration order
Kinds == <<"floatingP", "eight_bit", "thirtytwo_bit", "character">>
NumericKinds == {"floatingP", "eight_bit", "thirtytwo_bit"}
KindPos(kind) == CHOOSE i \in 1..Len(Kinds) : Kinds[i] = kind

\* the size of each array (an even number of cells)
length == 4

\* string objects the callers pass as baseID: 1 and 2 hold the same characters
KeyPtrs == {1, 2, 3}
\* string objects the callers pass as data to PTAM_ADD_BASE_CHAR
DataPtrs == {4, 5}
\* addresses an uninitialized char* can happen to hold
WildPtrs == {8, 9}
\* the characters of the string objects
TextOf(ptr) ==
    CASE ptr \in {1, 2} -> <<"k">>
      [] ptr = 3 -> <<"j">>
      [] ptr = 4 -> <<"v">>
      [] ptr = 5 -> <<"w">>
      [] OTHER -> <<>>
\* numbers the callers pass as data to the numeric adds
LegacyVals == {1, 2}
\* what atoi yields on memory the program never wrote
GarbageInts == {0, 7}
\* heap cell no itoa has written yet
Unwritten == 0 - 1
\* the value of an uninitialized char* local: null, or some address
Indeterminate == {0} \cup WildPtrs

\* return sizeof(data)
SizeOf(kind) ==
    CASE kind = "floatingP" -> 8
      [] kind = "eight_bit" -> 1
      [] kind = "thirtytwo_bit" -> 4
      [] OTHER -> 4

LegacyInit ==
    /\ arrays = [kind \in {Kinds[i] : i \in 1..Len(Kinds)} |-> [i \in 1..length |-> 0]]
    /\ LENs = [kind \in {Kinds[i] : i \in 1..Len(Kinds)} |-> 0]
    /\ heap = [ptr \in WildPtrs |-> Unwritten]
    /\ lpc = "run"
    /\ lcall = [op |-> "none", kind |-> "none", key |-> 0, found |-> FALSE, stray |-> FALSE]
    /\ lret = 0
    /\ added = {}
    /\ lops = 0

\* both cells of the pair starting at C index a lie inside the array
InBounds(a) == 0 <= a /\ a + 1 < length

\* arr[a] = p1; arr[a + 1] = p2 for C index a
SetPair(arrs, kind, a, p1, p2) ==
    [arrs EXCEPT ![kind] = [@ EXCEPT ![a + 1] = p1, ![a + 2] = p2]]

\* the arrays after kind[LEN - 2] = p1; kind[LEN - 1] = p2. A pair outside the
\* array traps, lands in memory outside the four arrays, or lands in the array
\* declared next to it.
PairWrites(arrs, kind, a, p1, p2) ==
    IF InBounds(a)
    THEN {[arr |-> SetPair(arrs, kind, a, p1, p2), st |-> "ok"]}
    ELSE {[arr |-> arrs, st |-> "trap"], [arr |-> arrs, st |-> "stray"]}
         \cup (IF a < 0 /\ KindPos(kind) > 1 /\ InBounds(length + a)
               THEN {[arr |-> SetPair(arrs, Kinds[KindPos(kind) - 1], length + a, p1, p2),
                      st |-> "stray"]}
               ELSE {})
         \cup (IF a >= length /\ KindPos(kind) < Len(Kinds) /\ InBounds(a - length)
               THEN {[arr |-> SetPair(arrs, Kinds[KindPos(kind) + 1], a - length, p1, p2),
                      st |-> "stray"]}
               ELSE {})

LegacyCall(op, kind, key, found, stray) ==
    [op |-> op, kind |-> kind, key |-> key, found |-> found, stray |-> stray]

\* kind[kind_LEN - 2] = baseID; kind[kind_LEN - 1] = value; kind_LEN += 2;
\* return sizeof(data)
AddPair(kind, baseID, value, data) ==
    \E w \in PairWrites(arrays, kind, LENs[kind] - 2, baseID, value) :
        /\ arrays' = w.arr
        /\ lpc' = IF w.st = "trap" THEN "crashed" ELSE "run"
        /\ LENs' = IF w.st = "trap" THEN LENs
                   ELSE [LENs EXCEPT ![kind] = (@ + 2) % 256]
        /\ lret' = IF w.st = "trap" THEN 0 ELSE SizeOf(kind)
        /\ lcall' = LegacyCall("add", kind, baseID, FALSE, w.st # "ok")
        /\ added' = added \cup {<<kind, TextOf(baseID), data>>}
        /\ lops' = lops + 1

\* char* converted; itoa(data, converted, 10); then the pair is added.
\* converted is uninitialized: itoa writes the digits wherever it points, or traps.
AddNumeric(kind) ==
    /\ lpc = "run" /\ lops < MaxLegacyOps
    /\ \E baseID \in KeyPtrs, data \in LegacyVals, converted \in Indeterminate :
          IF converted \in WildPtrs
          THEN /\ heap' = [heap EXCEPT ![converted] = data]
               /\ AddPair(kind, baseID, converted, data)
          ELSE /\ lpc' = "crashed"
               /\ lcall' = LegacyCall("add", kind, baseID, FALSE, TRUE)
               /\ lops' = lops + 1
               /\ UNCHANGED <<arrays, LENs, heap, lret, added>>
    /\ UNCHANGED <<store, server, served, issued, reader, flash, packs, live, periph>>

PTAM_ADD_BASE_DOUBLE == AddNumeric("floatingP")
PTAM_ADD_BASE_8 == AddNumeric("eight_bit")
PTAM_ADD_BASE_32 == AddNumeric("thirtytwo_bit")

PTAM_ADD_BASE_CHAR ==
    /\ lpc = "run" /\ lops < MaxLegacyOps
    /\ \E baseID \in KeyPtrs, data \in DataPtrs :
          AddPair("character", baseID, data, data)
    /\ UNCHANGED <<store, server, served, issued, reader, flash, packs, live, periph, heap>>

\* for (i = 0; i < length; i += 2) if (kind[i] == baseID) ...: the C indices
\* whose cell holds the very pointer baseID
Matches(kind, baseID) ==
    {i \in 0..(length - 1) : i % 2 = 0 /\ arrays[kind][i + 1] = baseID}

FirstMatch(kind, baseID) ==
    CHOOSE i \in Matches(kind, baseID) : \A j \in Matches(kind, baseID) : i <= j

\* the values temp_data can hold after the loop: the neighbour of the first
\* match, or whatever the uninitialized local held
TempData(kind, baseID) ==
    IF Matches(kind, baseID) # {}
    THEN {arrays[kind][FirstMatch(kind, baseID) + 2]}
    ELSE Indeterminate

\* atoi(temp_data): the numbers the read at the address can yield; none: a trap
Atoi(ptr) ==
    IF ptr \notin WildPtrs THEN {}
    ELSE IF heap[ptr] = Unwritten THEN GarbageInts ELSE {heap[ptr]}

RetrieveNumeric(kind) ==
    /\ lpc = "run" /\ lops < MaxLegacyOps
    /\ \E baseID \in KeyPtrs : \E temp_data \in TempData(kind, baseID) :
          /\ lcall' = LegacyCall("get", kind, baseID, Matches(kind, baseID) # {}, FALSE)
          /\ IF Atoi(temp_data) = {}
             THEN lpc' = "crashed" /\ lret' = 0
             ELSE lpc' = "run" /\ lret' \in Atoi(temp_data)
    /\ lops' = lops + 1
    /\ UNCHANGED <<store, server, served, issued, reader, flash, packs, live, periph, arrays, LENs, heap, added>>

PTAM_RETRIEVE_BASE_DOUBLE == RetrieveNumeric("floatingP")
PTAM_RETRIEVE_BASE_8 == RetrieveNumeric("eight_bit")
PTAM_RETRIEVE_BASE_32 == RetrieveNumeric("thirtytwo_bit")

\* returns temp_data itself, a char*
PTAM_RETRIEVE_BASE_CHAR ==
    /\ lpc = "run" /\ lops < MaxLegacyOps
    /\ \E baseID \in KeyPtrs : \E temp_data \in TempData("character", baseID) :
          /\ lcall' = LegacyCall("get", "character", baseID,
                                 Matches("character", baseID) # {}, FALSE)
          /\ lret' = temp_data
    /\ lpc' = "run"
    /\ lops' = lops + 1
    /\ UNCHANGED <<store, server, served, issued, reader, flash, packs, live, periph, arrays, LENs, heap, added>>

----------------------------------------------------------------------------
(* Handler code *)

\* received_data after the receive loop
Buf == SubSeq(body, 1, Min(received, Len(body)))

\* if (total_len >= MAX_DATA_LEN) return ESP_FAIL;
OversizeGT(len) == len > MAX_DATA_LEN
Oversize(len) == len >= MAX_DATA_LEN

\* the register written for position i (1-based) of a SWP / SYS command
SWPKeys == <<"TLat", "TLong", "TAlt", "CAlt", "TVel">>
SYSKeys == <<"WingFL", "WingFR", "WingRL", "WingRR", "THR">>
KeyAtId(h, i) ==
    LET ids == extractIds(CStr(Buf))
        keys == IF h = "SWP" THEN SWPKeys ELSE SYSKeys
    IN  IF i <= Len(ids) /\ ids[i] = <<FieldIds[NUM_FIELDS]>> THEN keys[NUM_FIELDS] ELSE keys[i]
KeyAtState(h, i) == IF i = 1 THEN "state" ELSE SYSKeys[i]
KeyAt(h, i) == IF h = "SWP" THEN SWPKeys[i] ELSE SYSKeys[i]

\* values[i - 1] in the code: the element, or what the out-of-bounds read yields
ReadSet(i) == IF i <= Len(values) THEN {values[i]} ELSE GarbageVals

\* int(values[0]): the conversion truncates toward zero
IntOfRound(v) == (v + Half) \div Scale
IntOf(v) == IF v >= 0 THEN v \div Scale ELSE 0 - ((0 - v) \div Scale)

\* switch(int(values[0])) of handle_STATE_incoming
StateSwitchAdjacent(s, v) ==
    CASE IntOf(v) = 1 /\ getLastInt(s, "state") # ARMED -> updateState(s, PREP)
      [] IntOf(v) = 2 -> updateState(s, ARMED)
      [] IntOf(v) = 3 -> updateState(s, BYPASS)
      [] OTHER -> s
StateSwitchLatch(s, v) ==
    CASE getLastInt(s, "state") = BYPASS -> s
      [] IntOf(v) = 1 -> updateState(s, PREP)
      [] IntOf(v) = 2 -> updateState(s, ARMED)
      [] IntOf(v) = 3 -> updateState(s, BYPASS)
      [] OTHER -> s
StateSwitch(s, v) ==
    CASE IntOf(v) = 1 -> updateState(s, PREP)
      [] IntOf(v) = 2 -> updateState(s, ARMED)
      [] IntOf(v) = 3 -> updateState(s, BYPASS)
      [] OTHER -> s

\* received_data != token_saved
TokenMismatch(data, saved) == CStr(data) # saved

\* bool fanIsOn = false; the relay pin is low; SERVO_POS_1 .. SERVO_POS_4 = 0;
\* no transfer is in progress
PeriphInit ==
    /\ fanIsOn = FALSE /\ relay = 0 /\ relay_writes = 0 /\ fan_ops = <<>>
    /\ SERVO_POS = [pin \in 0..3 |-> 0]
    /\ servo_call = [pin |-> 0, target |-> 0, ret |-> 0, duty |-> 0]
    /\ cmd_link = "none" /\ xpc = "idle" /\ steps = <<>>
    /\ xcall = [kind |-> "none", num |-> 0, addr |-> 0]
    /\ xret = <<>>

\* no update is in progress and the bootloader starts the running image
FlashInit ==
    /\ remaining = 0 /\ written = 0 /\ ota_calls = <<>>
    /\ boot = "running"

Locals0 ==
    /\ handler = "none" /\ total_len = 0 /\ body = <<>> /\ received = 0
    /\ called = FALSE /\ recv_fail = <<>> /\ flightConfig = 0
    /\ values = <<>> /\ idx = 0 /\ cur = 0
    /\ token_saved = <<>> /\ packed_data = <<>> /\ resp = <<>> /\ ret = NoRet
    /\ oob = FALSE

Init ==
    /\ store = BootStore
    /\ pre = BootStore
    /\ pc = "idle"
    /\ Locals0
    /\ served = 0
    /\ issued = <<>>
    /\ rpc = "idle" /\ rDescr = <<>> /\ rState = 0 /\ rWing = 0
    /\ LegacyInit
    /\ FlashInit
    /\ packs = <<>>
    /\ live = 0
    /\ PeriphInit

\* entry of an ingestion handler up to the size check
BeginIngest(h, b, len) ==
    /\ pc = "idle"
    /\ served < MaxRequests
    /\ served' = served + 1
    /\ handler' = h /\ body' = b /\ total_len' = len
    /\ received' = 0 /\ called' = FALSE /\ recv_fail' = <<>> /\ flightConfig' = 0
    /\ values' = <<>> /\ idx' = 0 /\ cur' = 0
    /\ token_saved' = <<>> /\ packed_data' = <<>> /\ resp' = <<>>
    /\ oob' = FALSE
    /\ pre' = store
    /\ IF Oversize(len)
       THEN pc' = "done" /\ ret' = ESP_FAIL
       ELSE pc' = "recv" /\ ret' = NoRet
    /\ UNCHANGED <<store, issued, legacy, flash, packs, live, periph, reader>>

Requests(Bodies) ==
    {<<b, Len(b)>> : b \in Bodies} \cup {<<(<<>>), n>> : n \in OversizeLens}

BeginSWP == \E r \in Requests(IngestBodies) : BeginIngest("SWP", r[1], r[2])
BeginSYS == \E r \in Requests(IngestBodies) : BeginIngest("SYS", r[1], r[2])
BeginSTATE == \E r \in Requests(StateBodies) : BeginIngest("STATE", r[1], r[2])
BeginAUTH == \E r \in Requests(AuthBodies) : BeginIngest("AUTH", r[1], r[2])

\* the buffer length every httpd_req_recv call of the ingestion handlers passes
RecvOffered == MAX_DATA_LEN

\* the lengths one httpd_req_recv call delivers when rem bytes are outstanding:
\* all of them, or about half
ChunkSizes(rem) == {Min(rem, RecvOffered), (Min(rem, RecvOffered) + 1) \div 2}

\* HTTPD_SOCK_ERR_TIMEOUT of esp_http_server.h
HTTPD_SOCK_ERR_TIMEOUT == 0 - 3

\* what one httpd_req_recv call can return when rem bytes are outstanding: a
\* chunk length, 0 (connection closed), HTTPD_SOCK_ERR_FAIL or the timeout code
RecvResults(rem) == ChunkSizes(rem) \cup {0, 0 - 1, HTTPD_SOCK_ERR_TIMEOUT}

\* if (cur_len <= 0)
RecvBadNeg(r) == r < 0
RecvBad(r) == r <= 0

\* a return value that is neither a chunk length nor the timeout code
HardError(r) == r <= 0 /\ r # HTTPD_SOCK_ERR_TIMEOUT

\* cur_len = httpd_req_recv(...) > 0; received += cur_len
RecvChunk ==
    /\ pc = "recv" /\ received < total_len
    /\ \E r \in RecvResults(total_len - received) :
          /\ ~RecvBad(r)
          /\ received' = received + r
          /\ recv_fail' = IF HardError(r) THEN <<r>> ELSE recv_fail
    /\ called' = TRUE
    /\ UNCHANGED <<store, pc, handler, total_len, body, flightConfig, values, idx, cur,
                   token_saved, packed_data, resp, ret, pre, oob, served, issued, legacy, flash, packs, live, periph, reader>>

\* cur_len == HTTPD_SOCK_ERR_TIMEOUT: continue
RecvTimeout ==
    /\ pc = "recv" /\ received < total_len
    /\ \E r \in RecvResults(total_len - received) :
          RecvBad(r) /\ r = HTTPD_SOCK_ERR_TIMEOUT
    /\ called' = TRUE
    /\ UNCHANGED <<store, pc, handler, total_len, body, received, recv_fail, flightConfig,
                   values, idx, cur, token_saved, packed_data, resp, ret, pre, oob, served,
                   issued, legacy, flash, packs, live, periph, reader>>

\* cur_len <= 0 and not a timeout: return ESP_FAIL
RecvError ==
    /\ pc = "recv" /\ received < total_len
    /\ \E r \in RecvResults(total_len - received) :
          /\ RecvBad(r) /\ r # HTTPD_SOCK_ERR_TIMEOUT
          /\ recv_fail' = IF HardError(r) THEN <<r>> ELSE recv_fail
    /\ called' = TRUE
    /\ pc' = "done" /\ ret' = ESP_FAIL
    /\ UNCHANGED <<store, handler, total_len, body, received, flightConfig, values, idx,
                   cur, token_saved, packed_data, resp, pre, oob, served, issued, legacy, flash, packs, live, periph,
                   reader>>

\* loop exit, NUL termination, extractValuesAndIds(data, ids, values)
Decode ==
    /\ pc = "recv" /\ received >= total_len
    /\ handler \in {"SWP", "SYS", "STATE"}
    /\ IF extractThrows(CStr(Buf))
       THEN pc' = "crashed" /\ UNCHANGED <<values, idx>>
       ELSE /\ values' = extractValues(CStr(Buf))
            /\ pc' = IF handler = "STATE" THEN "chk" ELSE "log"
            /\ idx' = 1
    /\ UNCHANGED <<store, handler, total_len, body, received, called, recv_fail, flightConfig, cur,
                   token_saved, packed_data, resp, ret, pre, oob, served, issued, legacy, flash, packs, live, periph, reader>>

\* ESP_LOGI("TAG", "%f", values[0]) of the SWP and SYS handlers
LogValue ==
    /\ pc = "log"
    /\ oob' = (oob \/ 1 > Len(values))
    /\ pc' = "chk"
    /\ UNCHANGED <<store, handler, total_len, body, received, called, recv_fail, flightConfig, values,
                   idx, cur, token_saved, packed_data, resp, ret, pre, served, issued, legacy, flash, packs, live, periph, reader>>

\* a read past the end of the vector traps
CrashOOB ==
    /\ pc \in {"log", "chk"} /\ idx > Len(values)
    /\ pc' = "crashed" /\ oob' = TRUE
    /\ UNCHANGED <<store, handler, total_len, body, received, called, recv_fail, flightConfig, values,
                   idx, cur, token_saved, packed_data, resp, ret, pre, served, issued, legacy, flash, packs, live, periph, reader>>

\* the handler moves past position idx
Advance ==
    IF idx = NUM_FIELDS
    THEN pc' = "done" /\ ret' = ESP_OK /\ idx' = idx
    ELSE pc' = "chk" /\ ret' = ret /\ idx' = idx + 1

\* position idx makes the handler write: any non-zero value in SWP and SYS,
\* the first value alone in STATE
WritesAlways(h, i, v) == h = "STATE" => i = 1
Writes(h, i, v) == v # 0 /\ (h = "STATE" => i = 1)

\* if (values[idx - 1] != 0)
Chk ==
    /\ pc = "chk"
    /\ \E v \in ReadSet(idx) :
          /\ cur' = v
          /\ IF Writes(handler, idx, v)
             THEN /\ pc' = IF handler = "STATE" THEN "upd" ELSE "clr"
                  /\ UNCHANGED <<idx, ret>>
             ELSE Advance
    /\ oob' = (oob \/ idx > Len(values))
    /\ UNCHANGED <<store, handler, total_len, body, received, called, recv_fail, flightConfig, values,
                   token_saved, packed_data, resp, pre, served, issued, legacy, flash, packs, live, periph, reader>>

\* the server task is about to call clearData, and the key it passes
AtClear == pc \in {"clr", "a1", "a3", "t1"}
ClearedKey ==
    CASE pc = "clr" -> KeyAt(handler, idx)
      [] pc = "a1" -> "state"
      [] pc = "a3" -> "stateDescript"
      [] OTHER -> "arm_token"

\* sharedMemory.clearData(key)
Clr ==
    /\ pc = "clr"
    /\ store' = clearData(store, KeyAt(handler, idx))
    /\ pc' = "sto"
    /\ UNCHANGED <<handler, total_len, body, received, called, recv_fail, flightConfig, values, idx,
                   cur, token_saved, packed_data, resp, ret, pre, oob, served, issued, legacy, flash, packs, live, periph, reader>>

\* sharedMemory.storeDouble(key, values[idx - 1])
Sto ==
    /\ pc = "sto"
    /\ store' = storeDouble(store, KeyAt(handler, idx), cur)
    /\ Advance
    /\ UNCHANGED <<handler, total_len, body, received, called, recv_fail, flightConfig, values,
                   cur, token_saved, packed_data, resp, pre, oob, served, issued, legacy, flash, packs, live, periph, reader>>

\* STATE *switchS = new STATE(); switch (...) updateState(...); delete switchS
Upd ==
    /\ pc = "upd"
    /\ store' = StateSwitch(store, cur)
    /\ Advance
    /\ UNCHANGED <<handler, total_len, body, received, called, recv_fail, flightConfig, values,
                   cur, token_saved, packed_data, resp, pre, oob, served, issued, legacy, flash, packs, live, periph, reader>>


\* token_saved = sharedMemory.getLastString("arm_token"); the comparison; the
\* STATE-CHANGE-FAIL reply on a mismatch
Compare ==
    /\ pc = "recv" /\ received >= total_len
    /\ handler = "AUTH"
    /\ token_saved' = getLastString(store, "arm_token")
    /\ IF TokenMismatch(Buf, token_saved')
       THEN pc' = "done" /\ ret' = ESP_OK /\ resp' = <<S_FAIL>>
       ELSE pc' = "a1" /\ ret' = ret /\ resp' = resp
    /\ UNCHANGED <<store, handler, total_len, body, received, called, recv_fail, flightConfig, values,
                   idx, cur, packed_data, pre, oob, served, issued, legacy, flash, packs, live, periph, reader>>

\* sharedMemory.clearData("state")
AuthConsumeToken ==
    /\ pc = "a1"
    /\ store' = clearData(clearData(store, "state"), "arm_token")
    /\ pc' = "a2"
    /\ UNCHANGED <<handler, total_len, body, received, called, recv_fail, flightConfig,
                   values, idx, cur, token_saved, packed_data, resp, ret, pre, oob, served,
                   issued, legacy, flash, packs, live, periph, reader>>
AuthClearState ==
    /\ pc = "a1"
    /\ store' = clearData(store, "state")
    /\ pc' = "a2"
    /\ UNCHANGED <<handler, total_len, body, received, called, recv_fail, flightConfig, values, idx,
                   cur, token_saved, packed_data, resp, ret, pre, oob, served, issued, legacy, flash, packs, live, periph, reader>>

\* sharedMemory.storeDouble("state", 2)
AuthStoreState ==
    /\ pc = "a2"
    /\ store' = storeDouble(store, "state", ARMED_CODE * Scale)
    /\ pc' = "a3"
    /\ UNCHANGED <<handler, total_len, body, received, called, recv_fail, flightConfig, values, idx,
                   cur, token_saved, packed_data, resp, ret, pre, oob, served, issued, legacy, flash, packs, live, periph, reader>>

\* sharedMemory.clearData("stateDescript")
AuthClearDescr ==
    /\ pc = "a3"
    /\ store' = clearData(store, "stateDescript")
    /\ pc' = "a4"
    /\ UNCHANGED <<handler, total_len, body, received, called, recv_fail, flightConfig, values, idx,
                   cur, token_saved, packed_data, resp, ret, pre, oob, served, issued, legacy, flash, packs, live, periph, reader>>

\* sharedMemory.storeString("stateDescript", "ARMED"); the STATE-CHANGE-SUCCESS reply
AuthStoreDescr ==
    /\ pc = "a4"
    /\ store' = storeString(store, "stateDescript", S_ARMED)
    /\ resp' = <<S_SUCCESS>>
    /\ pc' = "done" /\ ret' = ESP_OK
    /\ UNCHANGED <<handler, total_len, body, received, called, recv_fail, flightConfig, values, idx,
                   cur, token_saved, packed_data, pre, oob, served, issued, legacy, flash, packs, live, periph, reader>>

\* the key handle_arm_token_request writes
TokenKeyWrong == "token"
TokenKey == "arm_token"

\* values verifyFlightConfiguration can return
ConfigResults == {0, 1}

\* if (cobj -> verifyFlightConfiguration() != 0)
ConfigPassesAlways(r) == r >= 0
ConfigPasses(r) == r # 0

\* handle_arm_token_request up to the configuration check and the token generation:
\* cobj = new CONTROLLER_TASKS(), deleted at once when the check fails
BeginTOKEN ==
    /\ pc = "idle"
    /\ served < MaxRequests
    /\ served' = served + 1
    /\ handler' = "TOKEN" /\ body' = <<>> /\ total_len' = 0
    /\ received' = 0 /\ called' = FALSE /\ recv_fail' = <<>>
    /\ values' = <<>> /\ idx' = 0 /\ cur' = 0
    /\ token_saved' = <<>> /\ resp' = <<>> /\ oob' = FALSE
    /\ pre' = store
    /\ \E r \in ConfigResults, t \in Tokens :
          /\ flightConfig' = r
          /\ IF ConfigPasses(r)
             THEN packed_data' = t /\ pc' = "t1" /\ ret' = NoRet /\ live' = live + 1
             ELSE packed_data' = <<>> /\ pc' = "done" /\ ret' = ESP_OK /\ live' = live
    /\ UNCHANGED <<store, issued, legacy, flash, packs, reader, periph>>

\* sharedMemory.clearData("arm_token")
TokClear ==
    /\ pc = "t1"
    /\ store' = clearData(store, TokenKey)
    /\ pc' = "t2"
    /\ UNCHANGED <<handler, total_len, body, received, called, recv_fail, flightConfig, values, idx,
                   cur, token_saved, packed_data, resp, ret, pre, oob, served, issued, legacy, flash, packs, live, periph, reader>>

\* sharedMemory.storeString("arm_token", packed_data); httpd_resp_send(packed_data);
\* delete cobj
TokStore ==
    /\ pc = "t2"
    /\ store' = storeString(store, TokenKey, packed_data)
    /\ resp' = <<packed_data>>
    /\ issued' = <<packed_data>>
    /\ pc' = "done" /\ ret' = ESP_OK
    /\ live' = live - 1
    /\ UNCHANGED <<handler, total_len, body, received, called, recv_fail, flightConfig, values, idx,
                   cur, token_saved, packed_data, pre, oob, served, reader, legacy, flash, packs,
                   periph>>

\* the handler has returned; the server task waits for the next request
Return ==
    /\ pc = "done"
    /\ pc' = "idle"
    /\ handler' = "none" /\ total_len' = 0 /\ body' = <<>> /\ received' = 0
    /\ called' = FALSE /\ recv_fail' = <<>> /\ flightConfig' = 0
    /\ values' = <<>> /\ idx' = 0 /\ cur' = 0
    /\ token_saved' = <<>> /\ packed_data' = <<>> /\ resp' = <<>> /\ ret' = NoRet
    /\ oob' = FALSE
    /\ pre' = store
    /\ remaining' = 0 /\ written' = 0 /\ ota_calls' = <<>>
    /\ UNCHANGED <<store, served, issued, legacy, boot, packs, live, periph, reader>>

----------------------------------------------------------------------------
(* Firmware update: handle_OTA_incoming *)

\* char buf[1000]
OTA_BUF_LEN == 1000

\* content lengths of the image streams the client declares
ImageLens == {0, 600, 1600}

\* what esp_ota_begin, esp_ota_write, esp_ota_end and
\* esp_ota_set_boot_partition can return: ESP_OK or an error code
OtaResults == {ESP_OK, ESP_FAIL}

\* httpd_resp_send_err(req, HTTPD_500_INTERNAL_SERVER_ERROR, msg)
Err500(msg) == <<"500">> \o msg

\* MIN(remaining, sizeof(buf))
OtaOfferedBuf(rem) == OTA_BUF_LEN
OtaOffered(rem) == Min(rem, OTA_BUF_LEN)

\* what one httpd_req_recv call can return when it is offered n bytes
OtaRecvResults(n) == {n, (n + 1) \div 2} \cup {0, 0 - 1, HTTPD_SOCK_ERR_TIMEOUT}

\* entry of the handler: remaining = req->content_len;
\* ESP_ERROR_CHECK(esp_ota_begin(...)) aborts the process on an error code
BeginOTA ==
    /\ pc = "idle"
    /\ served < MaxRequests
    /\ served' = served + 1
    /\ handler' = "OTA" /\ body' = <<>>
    /\ received' = 0 /\ called' = FALSE /\ recv_fail' = <<>> /\ flightConfig' = 0
    /\ values' = <<>> /\ idx' = 0 /\ cur' = 0
    /\ token_saved' = <<>> /\ packed_data' = <<>> /\ resp' = <<>>
    /\ oob' = FALSE /\ ret' = NoRet
    /\ pre' = store
    /\ \E len \in ImageLens : total_len' = len /\ remaining' = len
    /\ written' = 0
    /\ \E b \in OtaResults :
          /\ ota_calls' = <<(<<"begin", b>>)>>
          /\ pc' = IF b = ESP_OK THEN "o_recv" ELSE "crashed"
    /\ UNCHANGED <<store, issued, legacy, boot, packs, live, periph, reader>>

\* recv_len == HTTPD_SOCK_ERR_TIMEOUT: continue
OtaRecvTimeout ==
    /\ pc = "o_recv" /\ remaining > 0
    /\ HTTPD_SOCK_ERR_TIMEOUT \in OtaRecvResults(OtaOffered(remaining))
    /\ called' = TRUE
    /\ UNCHANGED <<store, pc, handler, total_len, body, received, recv_fail, flightConfig,
                   values, idx, cur, token_saved, packed_data, resp, ret, pre, oob, served,
                   issued, legacy, flash, packs, live, periph, reader>>

\* recv_len <= 0 and not a timeout: "Protocol Error", return ESP_FAIL
OtaRecvError ==
    /\ pc = "o_recv" /\ remaining > 0
    /\ \E r \in OtaRecvResults(OtaOffered(remaining)) :
          /\ r # HTTPD_SOCK_ERR_TIMEOUT /\ r <= 0
          /\ recv_fail' = <<r>>
    /\ called' = TRUE
    /\ resp' = <<Err500(S_PROTOCOL)>>
    /\ pc' = "done" /\ ret' = ESP_FAIL
    /\ UNCHANGED <<store, handler, total_len, body, received, flightConfig, values, idx,
                   cur, token_saved, packed_data, pre, oob, served, issued, legacy, flash,
                   packs, live, periph, reader>>

\* esp_ota_write(ota_handle, buf, recv_len): on ESP_OK remaining -= recv_len,
\* otherwise "Flash Error", return ESP_FAIL
OtaWrite ==
    /\ pc = "o_recv" /\ remaining > 0
    /\ \E r \in OtaRecvResults(OtaOffered(remaining)), w \in OtaResults :
          /\ r # HTTPD_SOCK_ERR_TIMEOUT /\ r > 0
          /\ IF w = ESP_OK
             THEN /\ remaining' = remaining - r
                  /\ written' = written + r
                  /\ UNCHANGED <<pc, ret, resp, ota_calls>>
             ELSE /\ ota_calls' = Append(ota_calls, <<"write", w>>)
                  /\ resp' = <<Err500(S_FLASH)>>
                  /\ pc' = "done" /\ ret' = ESP_FAIL
                  /\ UNCHANGED <<remaining, written>>
    /\ called' = TRUE
    /\ UNCHANGED <<store, handler, total_len, body, received, recv_fail, flightConfig,
                   values, idx, cur, token_saved, packed_data, pre, oob, served, issued,
                   legacy, boot, packs, live, periph, reader>>

\* loop exit; esp_ota_end(ota_handle) != ESP_OK || ...: the right-hand side is
\* evaluated only when the image was validated
OtaEnd ==
    /\ pc = "o_recv" /\ remaining <= 0
    /\ \E e \in OtaResults :
          /\ ota_calls' = Append(ota_calls, <<"end", e>>)
          /\ pc' = IF e = ESP_OK THEN "o_switch" ELSE "o_print1"
    /\ UNCHANGED <<store, handler, total_len, body, received, called, recv_fail,
                   flightConfig, values, idx, cur, token_saved, packed_data, resp, ret, pre,
                   oob, served, issued, legacy, remaining, written, boot, packs, live, periph, reader>>

\* ... || esp_ota_set_boot_partition(ota_partition) != ESP_OK
OtaSwitch ==
    /\ pc = "o_switch"
    /\ \E b \in OtaResults :
          /\ ota_calls' = Append(ota_calls, <<"set_boot", b>>)
          /\ boot' = IF b = ESP_OK THEN "update" ELSE boot
          /\ pc' = IF b = ESP_OK THEN "o_send" ELSE "o_print1"
    /\ UNCHANGED <<store, handler, total_len, body, received, called, recv_fail,
                   flightConfig, values, idx, cur, token_saved, packed_data, resp, ret, pre,
                   oob, served, issued, legacy, remaining, written, packs, live, periph, reader>>

\* printf("ota_handle %d\r\n", esp_ota_end(ota_handle)) of the failure branch
OtaPrintEnd ==
    /\ pc = "o_print1"
    /\ \E e \in OtaResults : ota_calls' = Append(ota_calls, <<"end", e>>)
    /\ pc' = "o_print2"
    /\ UNCHANGED <<store, handler, total_len, body, received, called, recv_fail,
                   flightConfig, values, idx, cur, token_saved, packed_data, resp, ret, pre,
                   oob, served, issued, legacy, remaining, written, boot, packs, live, periph, reader>>

\* printf("ota_partition %d\r\n", esp_ota_set_boot_partition(ota_partition));
\* "Validation / Activation Error", return ESP_FAIL
OtaPrintSwitch ==
    /\ pc = "o_print2"
    /\ \E b \in OtaResults :
          /\ ota_calls' = Append(ota_calls, <<"set_boot", b>>)
          /\ boot' = IF b = ESP_OK THEN "update" ELSE boot
    /\ resp' = <<Err500(S_VALIDATION)>>
    /\ pc' = "done" /\ ret' = ESP_FAIL
    /\ UNCHANGED <<store, handler, total_len, body, received, called, recv_fail,
                   flightConfig, values, idx, cur, token_saved, packed_data, pre, oob,
                   served, issued, legacy, remaining, written, packs, live, periph, reader>>

\* httpd_resp_sendstr(req, "Firmware update complete, rebooting now!\n")
OtaComplete ==
    /\ pc = "o_send"
    /\ resp' = <<S_COMPLETE>>
    /\ ota_calls' = Append(ota_calls, <<"send", ESP_OK>>)
    /\ pc' = "o_restart"
    /\ UNCHANGED <<store, handler, total_len, body, received, called, recv_fail,
                   flightConfig, values, idx, cur, token_saved, packed_data, ret, pre, oob,
                   served, issued, legacy, remaining, written, boot, packs, live, periph, reader>>

\* vTaskDelay(500 / portTICK_PERIOD_MS); esp_restart(): the call does not return
OtaRestart ==
    /\ pc = "o_restart"
    /\ ota_calls' = Append(ota_calls, <<"restart", ESP_OK>>)
    /\ pc' = "rebooted"
    /\ UNCHANGED <<store, handler, total_len, body, received, called, recv_fail,
                   flightConfig, values, idx, cur, token_saved, packed_data, resp, ret, pre,
                   oob, served, issued, legacy, remaining, written, boot, packs, live, periph, reader>>

OTA == BeginOTA \/ OtaRecvTimeout \/ OtaRecvError \/ OtaWrite \/ OtaEnd \/ OtaSwitch
       \/ OtaPrintEnd \/ OtaPrintSwitch \/ OtaComplete \/ OtaRestart

----------------------------------------------------------------------------
(* Telemetry queries: handle_GPS_request ... handle_battery_request *)

TelemetryHandlers == {"GPS", "IMU1", "IMU2", "W1", "AMB", "BATT"}

\* the literal w.cc (cc hundredths) as a fixed-point number
Dec(w, cc) == w * Scale + (cc * Scale) \div 100

\* what the BATTERY driver reports: <<voltage, current draw, percent>>
BatteryReadings == {<<Dec(11, 10), Dec(2, 50), Dec(87, 0)>>, <<Dec(9, 60), 0, Dec(5, 0)>>}

\* id1 .. id4 of each handler
TelemetryIds(h) ==
    CASE h = "GPS" -> <<<<"L", "A", "T">>, <<"L", "O", "N", "G">>, <<"S", "A", "T">>, <<"A", "L", "T">>>>
      [] h = "IMU1" -> <<<<"P", "I", "T", "C", "H">>, <<"R", "O", "L", "L">>, <<"Y", "A", "W">>, <<"G", "Y", "R", "O", "Y">>>>
      [] h = "IMU2" -> <<<<"A", "C", "C", "X">>, <<"A", "C", "C", "Y">>, <<"A", "C", "C", "Z">>, <<"G", "Y", "R", "O", "X">>>>
      [] h = "W1" -> <<<<"W", "F", "L">>, <<"W", "F", "R">>, <<"W", "R", "L">>, <<"W", "R", "R">>>>
      [] h = "AMB" -> <<<<"O", "A", "T">>, <<"P", "R", "E", "S", "S">>, <<"G", "Y", "R", "O", "Z">>, <<"T", "H", "R", "O", "T">>>>
      [] h = "BATT" -> <<<<"V", "O", "L", "T", "A", "G", "E">>, <<"C", "U", "R", "R", "E", "N", "T">>, <<"P", "E", "R", "C", "E", "N", "T">>, <<"X", "X", "X">>>>

\* value1 .. value4 of each handler: constants, and battery readings in AMB and BATT
TelemetryVals(h) ==
    CASE h = "GPS" -> {<<Dec(56, 0), Dec(78, 50), Dec(72, 34), Dec(48, 20)>>}
      [] h = "IMU1" -> {<<Dec(98, 0), Dec(42, 0), Dec(87, 0), Dec(22, 0)>>}
      [] h = "IMU2" -> {<<Dec(98, 0), Dec(42, 0), Dec(87, 0), Dec(22, 0)>>}
      [] h = "W1" -> {<<Dec(165, 0), Dec(148, 0), Dec(109, 0), Dec(112, 0)>>}
      [] h = "AMB" -> {<<Dec(165, 0), Dec(148, 0), Dec(109, 0), b[3]>> : b \in BatteryReadings}
      [] h = "BATT" -> {<<b[1], b[2], b[3], Dec(112, 0)>> : b \in BatteryReadings}

\* one packData call as it is remembered: the arguments, the string returned
\* and the number of command, token and update requests served before it
PackRecord(ids, vals, out) == [ids |-> ids, vals |-> vals, out |-> out, at |-> served]

\* the calls remembered after one more call: the two most recent
Remember(rec) == IF packs = <<>> THEN <<rec>> ELSE <<packs[Len(packs)], rec>>

\* the telemetry handlers that start with new VEHICLE_BARO() / new BATTERY();
\* their delete stands behind the return of the POST branch
Allocates(h) == h \in {"GPS", "AMB", "BATT"}

\* a telemetry handler: packData of its four pairs, httpd_resp_send, return ESP_OK
Telemetry(h) ==
    /\ pc = "idle"
    /\ Allocates(h) => live < MaxLive
    /\ live' = IF Allocates(h) THEN live + 1 ELSE live
    /\ handler' = h /\ body' = <<>> /\ total_len' = 0
    /\ received' = 0 /\ called' = FALSE /\ recv_fail' = <<>> /\ flightConfig' = 0
    /\ values' = <<>> /\ idx' = 0 /\ cur' = 0
    /\ token_saved' = <<>> /\ oob' = FALSE
    /\ pre' = store
    /\ \E v \in TelemetryVals(h) :
          LET ids == TelemetryIds(h)
              out == packData(ids[1], v[1], ids[2], v[2], ids[3], v[3], ids[4], v[4])
          IN  /\ packed_data' = out
              /\ resp' = <<out>>
              /\ packs' = Remember(PackRecord(ids, v, out))
    /\ pc' = "done" /\ ret' = ESP_OK
    /\ UNCHANGED <<store, served, issued, legacy, flash, reader, periph>>

handle_GPS_request == Telemetry("GPS")
handle_IMU1_request == Telemetry("IMU1")
handle_IMU2_request == Telemetry("IMU2")
handle_W1_request == Telemetry("W1")
handle_AMB_request == Telemetry("AMB")
handle_battery_request == Telemetry("BATT")

TelemetryRequests ==
    \/ handle_GPS_request \/ handle_IMU1_request \/ handle_IMU2_request
    \/ handle_W1_request \/ handle_AMB_request \/ handle_battery_request

\* identifiers and values handed to packData when it is exercised on its own
PackIds == {<<<<"L", "A", "T">>, <<"L", "O", "N", "G">>, <<"S", "A", "T">>, <<"A", "L", "T">>>>,
            <<<<"T", "_", "L", "A", "T">>, <<"L", "O", "N", "G">>, <<"S", "A", "T">>, <<"A", "L", "T">>>>}
PackVals == {Dec(56, 0), Dec(78, 50), 0 - Dec(48, 20), Dec(123456, 70)}

\* packData called on its own
PackCall ==
    /\ pc = "idle" /\ served = 0 /\ packs = <<>>
    /\ \E ids \in PackIds, v \in [1..4 -> PackVals] :
          LET out == packData(ids[1], v[1], ids[2], v[2], ids[3], v[3], ids[4], v[4])
          IN  /\ packed_data' = out
              /\ packs' = <<PackRecord(ids, v, out)>>
    /\ pc' = "packed"
    /\ UNCHANGED <<store, handler, total_len, body, received, called, recv_fail,
                   flightConfig, values, idx, cur, token_saved, resp, ret, pre, oob,
                   served, issued, legacy, flash, live, periph, reader>>

\* extractValuesAndIds called on the string packData returned
UnpackCall ==
    /\ pc = "packed"
    /\ IF extractThrows(packed_data)
       THEN pc' = "crashed" /\ UNCHANGED values
       ELSE pc' = "unpacked" /\ values' = extractValues(packed_data)
    /\ UNCHANGED <<store, handler, total_len, body, received, called, recv_fail,
                   flightConfig, idx, cur, token_saved, packed_data, resp, ret, pre, oob,
                   served, issued, legacy, flash, packs, live, periph, reader>>

----------------------------------------------------------------------------
(* Fan relay: FAN_COOLING *)

\* double fanOnSetpoint = 45.0; double fanOffSetpoint = 35.0
fanOnSetpoint == 45
fanOffSetpoint == 35

\* temperatures the caller reads, in degrees: below, at, between, at and above
\* the two setpoints
Temps == {34, 35, 40, 45, 46}

\* sierraTemp > fanOnSetpoint
AboveOnOrAt(t) == t >= fanOnSetpoint
AboveOn(t) == t > fanOnSetpoint
\* sierraTemp < fanOffSetpoint
BelowOff(t) == t < fanOffSetpoint

\* gpio_set_level(RELAY_GPIO_PIN, level)
gpio_set_level(level) ==
    /\ relay' = level
    /\ relay_writes' = relay_writes + 1

FanCall(op, t) ==
    /\ Len(fan_ops) < MaxFanOps
    /\ fan_ops' = Append(fan_ops, <<op, t>>)

fan_relay_on ==
    /\ FanCall("on", 0)
    /\ gpio_set_level(1)
    /\ UNCHANGED <<fanIsOn, firmware, servo, i2c>>

fan_relay_off ==
    /\ FanCall("off", 0)
    /\ gpio_set_level(0)
    /\ UNCHANGED <<fanIsOn, firmware, servo, i2c>>

coolSierra_task ==
    /\ \E sierraTemp \in Temps :
          /\ FanCall("cool", sierraTemp)
          /\ IF AboveOn(sierraTemp) /\ ~fanIsOn
             THEN gpio_set_level(1) /\ fanIsOn' = TRUE
             ELSE IF BelowOff(sierraTemp) /\ fanIsOn
             THEN gpio_set_level(0) /\ fanIsOn' = FALSE
             ELSE UNCHANGED <<relay, relay_writes, fanIsOn>>
    /\ UNCHANGED <<firmware, servo, i2c>>

----------------------------------------------------------------------------
(* Servo position tracking: WingTranslate *)

\* targets of the accepted range 0..360, in whole degrees
Targets == {0, 90, 255, 256, 360}
\* pins the caller passes, a uint8_t
Pins == {0, 1, 2, 3, 4, 255}

\* linearInterpolate(target, 0, 360, ServoMsMin, ServoMsMax), in units of 1/36000
linearInterpolate(target) == 6 * 360 + 204 * target

\* the uint8_t a double converts to: the whole number when it fits, and for a
\* value past 255, where the conversion is undefined, its low byte or 255
ToU8(v) == IF v <= 255 THEN {v} ELSE {v % 256, 255}

GET_SERVO_POS(pos, pin) == IF pin \in 0..3 THEN pos[pin] ELSE 0

UPDATE_SERVO_POS(pos, pin, updatedValue) ==
    IF pin \in 0..3 THEN [pos EXCEPT ![pin] = updatedValue] ELSE pos

\* mapped_target = linearInterpolate(...); actuateServo(mapped_target, pin), whose
\* duty is (int)(100.0 * (mapped_target / 20.0) * 81.91);
\* UPDATE_SERVO_POS(pin, target); return mapped_target as uint8_t
servo_control ==
    /\ \E target \in Targets, pin \in Pins :
          \E updatedValue \in ToU8(target) :
             /\ SERVO_POS' = UPDATE_SERVO_POS(SERVO_POS, pin, updatedValue)
             /\ servo_call' = [pin |-> pin, target |-> target,
                               ret |-> linearInterpolate(target) \div 36000,
                               duty |-> (linearInterpolate(target) * 8191) \div 720000]
    /\ UNCHANGED <<firmware, fan, i2c>>

----------------------------------------------------------------------------
(* I2C transfer: I2CTransfer<TReturn>::do_transfer *)

\* the transfer classes that implement queue_cmd and process_result
TransferKinds == {"I2CWrite", "I2CRead", "I2CTransfer", "I2CComposed"}
I2CNumbers == {0, 1}
I2CAddresses == {8, 104}
\* what process_result can return
TransferResults == {0, 1}

\* an exception leaves do_transfer: cmd_link, a local, is destroyed on the way out
Unwind ==
    /\ xpc' = "thrown" /\ cmd_link' = "destroyed" /\ xret' = <<>>

\* I2CCommandLink cmd_link: the constructor creates the link or throws
BeginTransfer ==
    /\ xpc = "idle"
    /\ \E k \in TransferKinds, n \in I2CNumbers, a \in I2CAddresses :
          xcall' = [kind |-> k, num |-> n, addr |-> a]
    /\ steps' = <<>> /\ xret' = <<>>
    /\ \/ cmd_link' = "live" /\ xpc' = "queue"
       \/ cmd_link' = "none" /\ xpc' = "thrown"
    /\ UNCHANGED <<firmware, fan, servo>>

\* queue_cmd(cmd_link, i2c_addr): the subclass records its commands, with or
\* without a start of its own, or throws
QueueCmd ==
    /\ xpc = "queue"
    /\ \E starts \in BOOLEAN :
          steps' = steps \o <<"queue_cmd">> \o (IF starts THEN <<"start">> ELSE <<>>)
    /\ \/ xpc' = "stop" /\ UNCHANGED <<cmd_link, xret>>
       \/ Unwind
    /\ UNCHANGED <<firmware, fan, servo, xcall>>

\* cmd_link.stop()
LinkStop ==
    /\ xpc = "stop"
    /\ steps' = Append(steps, "stop")
    /\ \/ xpc' = "execute" /\ UNCHANGED <<cmd_link, xret>>
       \/ Unwind
    /\ UNCHANGED <<firmware, fan, servo, xcall>>

\* cmd_link.execute_transfer(i2c_num, driver_timeout)
ExecuteTransfer ==
    /\ xpc = "execute"
    /\ steps' = Append(steps, "execute_transfer")
    /\ \/ xpc' = "process" /\ UNCHANGED <<cmd_link, xret>>
       \/ Unwind
    /\ UNCHANGED <<firmware, fan, servo, xcall>>

\* return process_result(): the value is returned and cmd_link leaves scope
ProcessResult ==
    /\ xpc = "process"
    /\ steps' = Append(steps, "process_result")
    /\ \/ \E v \in TransferResults :
             xpc' = "returned" /\ cmd_link' = "destroyed" /\ xret' = <<v>>
       \/ Unwind
    /\ UNCHANGED <<firmware, fan, servo, xcall>>

\* the caller has the result or the exception; the next transfer can start
TransferOver ==
    /\ xpc \in {"returned", "thrown"}
    /\ xpc' = "idle" /\ cmd_link' = "none" /\ steps' = <<>> /\ xret' = <<>>
    /\ xcall' = [kind |-> "none", num |-> 0, addr |-> 0]
    /\ UNCHANGED <<firmware, fan, servo>>

do_transfer ==
    BeginTransfer \/ QueueCmd \/ LinkStop \/ ExecuteTransfer \/ ProcessResult \/ TransferOver

----------------------------------------------------------------------------
(* Logger task: EVENT_LOG_SSL and EVENT_LOG_SDD *)

Alive == pc \notin {"crashed", "rebooted"}

\* obj.getLastString("stateDescript")
ReadDescr ==
    /\ Alive /\ rpc = "idle"
    /\ rDescr' = getLastString(store, "stateDescript")
    /\ rpc' = "state"
    /\ UNCHANGED <<store, server, served, issued, legacy, flash, packs, live, periph, rState, rWing>>

\* obj.getLastInt("state")
ReadState ==
    /\ Alive /\ rpc = "state"
    /\ rState' = getLastInt(store, "state")
    /\ rpc' = "pair"
    /\ UNCHANGED <<store, server, served, issued, legacy, flash, packs, live, periph, rDescr, rWing>>

\* EVENT_LOG_SSL returns after the two reads
LogSSLEnd ==
    /\ Alive /\ rpc = "pair"
    /\ rpc' = "idle" /\ rDescr' = <<>> /\ rState' = 0 /\ rWing' = 0
    /\ UNCHANGED <<store, server, served, issued, legacy, flash, packs, live, periph>>

WingKeys == <<"WingFL", "WingFR", "WingRL", "WingRR">>
WingPos == <<"pair", "w2", "w3", "w4", "wend">>

\* obj.getLastDouble("WingFL") ... obj.getLastDouble("WingRR") of EVENT_LOG_SDD
ReadWing(i) ==
    /\ Alive /\ rpc = WingPos[i]
    /\ rWing' = getLastDouble(store, WingKeys[i])
    /\ rpc' = WingPos[i + 1]
    /\ UNCHANGED <<store, server, served, issued, legacy, flash, packs, live, periph, rDescr, rState>>

ReadWings == \E i \in 1..4 : ReadWing(i)

\* EVENT_LOG_SDD returns
LogSDDEnd ==
    /\ Alive /\ rpc = "wend"
    /\ rpc' = "idle" /\ rDescr' = <<>> /\ rState' = 0 /\ rWing' = 0
    /\ UNCHANGED <<store, server, served, issued, legacy, flash, packs, live, periph>>

----------------------------------------------------------------------------
(* Specifications *)

Receive == RecvChunk \/ RecvTimeout \/ RecvError

Ingest == Decode \/ LogValue \/ CrashOOB \/ Chk \/ Clr \/ Sto

Auth == Compare \/ AuthClearState \/ AuthStoreState \/ AuthClearDescr \/ AuthStoreDescr

Issue == BeginTOKEN \/ TokClear \/ TokStore

Logger == ReadDescr \/ ReadState \/ LogSSLEnd \/ ReadWings \/ LogSDDEnd

\* the setpoint and actuator commands
NextIngest == BeginSWP \/ BeginSYS \/ Receive \/ Ingest \/ Return

SpecIngest == Init /\ [][NextIngest]_vars

\* the token, the auth gate and the state machine
NextAuth == BeginSTATE \/ BeginAUTH \/ Receive \/ Decode \/ CrashOOB \/ Chk \/ Upd
            \/ Auth \/ Issue \/ Return

SpecAuth == Init /\ [][NextAuth]_vars

\* the four ingestion endpoints and the token endpoint, served one after another
NextServer == NextIngest \/ NextAuth

SpecServer == Init /\ [][NextServer]_vars

\* the same commands written with other identifier prefixes: the usual ones in
\* reverse order, one prefix for every field, the name of another register,
\* and no prefix at all
Labelings ==
    {[i \in 1..NUM_FIELDS |-> <<FieldIds[i]>>],
     [i \in 1..NUM_FIELDS |-> <<FieldIds[NUM_FIELDS + 1 - i]>>],
     [i \in 1..NUM_FIELDS |-> <<"x">>],
     [i \in 1..NUM_FIELDS |-> IF i = 1 THEN <<"T", "V", "e", "l">> ELSE <<"T", "L", "a", "t">>],
     [i \in 1..NUM_FIELDS |-> <<>>]}

RECURSIVE EncodeIds(_, _, _)
EncodeIds(ids, vals, i) ==
    IF i > Len(vals) THEN <<>>
    ELSE (IF i > 1 THEN <<"_">> ELSE <<>>)
         \o ids[i] \o NumText(vals[i]) \o EncodeIds(ids, vals, i + 1)

RelabelledBodies == {EncodeIds(ids, c, 1) : ids \in Labelings, c \in Commands5}

BeginSWPRelabelled == \E b \in RelabelledBodies : BeginIngest("SWP", b, Len(b))
BeginSYSRelabelled == \E b \in RelabelledBodies : BeginIngest("SYS", b, Len(b))

NextRelabel == BeginSWPRelabelled \/ BeginSYSRelabelled \/ Receive \/ Decode \/ LogValue
               \/ Chk \/ Clr \/ Sto \/ Return

SpecRelabel == Init /\ [][NextRelabel]_vars

\* actuator commands that set the front wings
WingBodies == {Encode(c, 1) : c \in {d \in Commands5 : d[1] # 0}}

BeginSYSWing == \E b \in WingBodies : BeginIngest("SYS", b, Len(b))

\* verify requests that carry a token the generator can produce
BeginAUTHToken == \E t \in Tokens : BeginIngest("AUTH", t, Len(t))

\* the server task (actuator commands, token, auth gate) with the logger task
\* running concurrently
NextLogged == BeginSYSWing \/ BeginAUTHToken \/ Receive \/ Decode \/ LogValue \/ Chk
              \/ Clr \/ Sto \/ Auth \/ Issue \/ Return \/ Logger

SpecLogged == Init /\ [][NextLogged]_vars

\* the server after one token has been issued and its handler has returned
InitIssued ==
    /\ \E t \in Tokens :
          /\ store = storeString(clearData(BootStore, TokenKey), TokenKey, t)
          /\ issued = <<t>>
    /\ pre = store
    /\ pc = "idle"
    /\ Locals0
    /\ served = 0
    /\ rpc = "idle" /\ rDescr = <<>> /\ rState = 0 /\ rWing = 0
    /\ LegacyInit
    /\ FlashInit
    /\ packs = <<>>
    /\ live = 0
    /\ PeriphInit

\* the token, the auth gate and the state machine, from an issued token on
SpecReuse == InitIssued /\ [][NextAuth]_vars

\* the legacy array store, called by one task
NextLegacy == PTAM_ADD_BASE_DOUBLE \/ PTAM_ADD_BASE_8 \/ PTAM_ADD_BASE_32
              \/ PTAM_ADD_BASE_CHAR \/ PTAM_RETRIEVE_BASE_CHAR \/ PTAM_RETRIEVE_BASE_8
              \/ PTAM_RETRIEVE_BASE_32 \/ PTAM_RETRIEVE_BASE_DOUBLE

SpecLegacy == Init /\ [][NextLegacy]_vars

\* the firmware update beside the token, the auth gate and the state machine
NextUpdate == OTA \/ NextAuth

SpecUpdate == Init /\ [][NextUpdate]_vars

\* a call of httpd_req_recv returns something other than the timeout code
TransportTimesOut == RecvTimeout \/ OtaRecvTimeout
TransportAnswers == RecvChunk \/ RecvError \/ OtaRecvError \/ OtaWrite

\* the server task executes the next statement of the handler it is in
HandlerRuns == Auth \/ TokClear \/ TokStore \/ OtaEnd \/ OtaSwitch \/ OtaPrintEnd
               \/ OtaPrintSwitch \/ OtaComplete \/ OtaRestart

\* the auth gate, the token and the firmware update; the transport does not
\* time out forever and the server task keeps running
NextLive == BeginAUTH \/ Receive \/ Auth \/ Issue \/ OTA \/ Return

SpecLive ==
    Init /\ [][NextLive]_vars /\ WF_vars(TransportAnswers) /\ WF_vars(HandlerRuns)

\* setpoint commands that set the first three positions
BeginSWPSet == \E b \in WingBodies : BeginIngest("SWP", b, Len(b))

\* the telemetry queries beside setpoint commands, actuator commands and the token
NextTelemetry == TelemetryRequests \/ BeginSWPSet \/ BeginSYSWing \/ RecvChunk \/ Decode
                 \/ LogValue \/ Chk \/ Clr \/ Sto \/ Issue \/ Return

SpecTelemetry == Init /\ [][NextTelemetry]_vars

\* the telemetry queries with token requests in between
NextPack == TelemetryRequests \/ Issue \/ Return

SpecPack == Init /\ [][NextPack]_vars

\* packData and extractValuesAndIds applied one after the other
NextCodec == PackCall \/ UnpackCall

SpecCodec == Init /\ [][NextCodec]_vars

\* the temperature regulation alone
NextFan == coolSierra_task

SpecFan == Init /\ [][NextFan]_vars

\* the public operations of the fan relay
NextRelay == fan_relay_on \/ fan_relay_off \/ coolSierra_task

SpecRelay == Init /\ [][NextRelay]_vars

NextServo == servo_control

SpecServo == Init /\ [][NextServo]_vars

NextI2C == do_transfer

SpecI2C == Init /\ [][NextI2C]_vars

Next == NextServer \/ OTA \/ TelemetryRequests \/ Logger

Spec == Init /\ [][Next]_vars

----------------------------------------------------------------------------
(* Properties *)

\* a register of the double kind as an optional value
RegOf(s, k) == IF k \in DOMAIN s.dbl THEN <<s.dbl[k]>> ELSE <<>>

SyncPairs == {<<PREP, S_PREP>>, <<ARMED, S_ARMED>>, <<BYPASS, S_BYPASS>>}

\* the current request has run its comparison / its decode
Compared == pc \in {"a1", "a2", "a3", "a4"} \/ (pc = "done" /\ ret = ESP_OK)
AuthDone == pc = "done" /\ handler = "AUTH" /\ ret = ESP_OK
IngestDone == pc = "done" /\ handler \in {"SWP", "SYS"} /\ ret = ESP_OK

\* C1: the pair (state, stateDescript) the logger has read with its two gets is
\* always one of (PREP, "PREP"), (ARMED, "ARMED"), (BYPASS, "BYPASS"), whatever
\* the server task was doing meanwhile.
C1_ReaderPairInSync ==
    rpc = "pair" => <<rState, rDescr>> \in SyncPairs

\* C2: a get of a wing register by the logger while a SYS handler is between its
\* clearData and its storeDouble of that register returns the value held before
\* the pair or the new value, never the cleared sentinel.
C2_ReaderNeverSeesCleared ==
    [][\A i \in 1..4 :
          (/\ rpc = WingPos[i] /\ rpc' = WingPos[i + 1]
           /\ handler = "SYS" /\ pc = "sto" /\ KeyAt(handler, idx) = WingKeys[i])
          => rWing' \in {getLastDouble(pre, WingKeys[i]), cur}]_vars

\* C3: a verify request answers STATE-CHANGE-SUCCESS if and only if its candidate
\* is exactly the token the most recent successful issue returned.
C3_VerifyIffLatestToken ==
    AuthDone => ((resp = <<S_SUCCESS>>) <=> (issued = <<body>>))

\* C4: a request that finds the flight state PREP and leaves it ARMED is a verify
\* request whose comparison matched; no other request arms.
C4_ArmOnlyByToken ==
    (/\ pc = "done"
     /\ getLastString(pre, "stateDescript") = S_PREP
     /\ getLastString(store, "stateDescript") = S_ARMED)
    => (handler = "AUTH" /\ resp = <<S_SUCCESS>>)

\* C5: after a verify request whose candidate is the issued token, the reply is
\* STATE-CHANGE-SUCCESS, the integer get of state reads 2 and stateDescript reads
\* "ARMED".
C5_VerifyMatchArms ==
    (AuthDone /\ issued = <<body>>)
    => (/\ resp = <<S_SUCCESS>>
        /\ getLastInt(store, "state") = ARMED_CODE
        /\ getLastString(store, "stateDescript") = S_ARMED)

\* C6: after a verify request whose candidate differs from the string stored
\* under arm_token, the reply is STATE-CHANGE-FAIL and no register has changed.
C6_VerifyMismatchFails ==
    (AuthDone /\ body # getLastString(pre, "arm_token"))
    => (resp = <<S_FAIL>> /\ store = pre)

\* C7: a request to SWP, SYS, STATE or AUTH whose declared length is at or above
\* the cap of 100 bytes has returned ESP_FAIL without a receive call, without a
\* byte received and without a register changed.
C7_OversizeRejected ==
    (handler \in {"SWP", "SYS", "STATE", "AUTH"} /\ total_len >= MAX_DATA_LEN)
    => (/\ pc = "done" /\ ret = ESP_FAIL
        /\ ~called /\ received = 0 /\ values = <<>> /\ resp = <<>>
        /\ store = pre)

C7_Witness ==
    /\ pc = "done" /\ ret = ESP_FAIL /\ total_len >= MAX_DATA_LEN
    /\ handler = "AUTH" /\ issued # <<>>

\* C8: after a five-field SWP or SYS command, the register of every position
\* with value 0 is as it was, the register of every position with a non-zero
\* value reads that value, and every other register of the store is unchanged.
C8_ZeroMeansNoOp ==
    (IngestDone /\ Len(values) = NUM_FIELDS /\ ~oob)
    => (/\ \A i \in 1..NUM_FIELDS :
              IF values[i] = 0
              THEN RegOf(store, KeyAt(handler, i)) = RegOf(pre, KeyAt(handler, i))
              ELSE RegOf(store, KeyAt(handler, i)) = <<values[i]>>
        /\ \A k \in (DOMAIN store.dbl) \cup (DOMAIN pre.dbl) :
              (\A i \in 1..NUM_FIELDS : k # KeyAt(handler, i))
              => RegOf(store, k) = RegOf(pre, k)
        /\ store.int = pre.int /\ store.str = pre.str)

C8_Witness ==
    /\ IngestDone /\ handler = "SWP" /\ Len(values) = NUM_FIELDS
    /\ \E i \in 1..NUM_FIELDS : values[i] = 0 /\ RegOf(pre, KeyAt(handler, i)) # <<>>
    /\ \E i \in 1..NUM_FIELDS :
          /\ values[i] # 0
          /\ RegOf(pre, KeyAt(handler, i)) \notin {<<>>, <<values[i]>>}

\* C9: a SWP, SYS or STATE command that decodes to fewer than five values is
\* rejected: no element past the end of the decoded sequence is read, no register
\* changes and the handler ends with a failure.
C9_ShortCommandRejected ==
    (/\ handler \in {"SWP", "SYS", "STATE"}
     /\ pc \in {"log", "chk", "clr", "sto", "upd", "done", "crashed"}
     /\ Len(values) < NUM_FIELDS)
    => (/\ ~oob
        /\ store = pre
        /\ pc # "crashed"
        /\ (pc = "done" => ret = ESP_FAIL))

Rest(f, k) == [x \in (DOMAIN f) \ {k} |-> f[x]]

\* C12: every clearData call a handler makes leaves the entry of every other
\* key, in each of the kinds, as it was, and changes nothing at all when its
\* key is absent.
C12_ClearFrame ==
    [][(AtClear /\ pc' # pc)
       => (/\ Rest(store'.dbl, ClearedKey) = Rest(store.dbl, ClearedKey)
           /\ Rest(store'.int, ClearedKey) = Rest(store.int, ClearedKey)
           /\ Rest(store'.str, ClearedKey) = Rest(store.str, ClearedKey)
           /\ (/\ ClearedKey \notin DOMAIN store.dbl
               /\ ClearedKey \notin DOMAIN store.int
               /\ ClearedKey \notin DOMAIN store.str) => store' = store)]_vars

\* a handler has just cleared a register that was present, next to other
\* registers of the same kind, after an earlier request cleared an absent one
C12_Witness ==
    /\ pc = "sto" /\ handler = "SYS" /\ served = MaxRequests
    /\ KeyAt(handler, idx) \in DOMAIN pre.dbl
    /\ KeyAt(handler, idx) \notin DOMAIN store.dbl
    /\ \E k \in DOMAIN store.dbl : k # KeyAt(handler, idx)
    /\ store.int = pre.int /\ store.str = pre.str

\* the last legacy call was a retrieve of a key no add has named in that kind
RetrievedAbsent ==
    /\ lcall.op = "get"
    /\ \A e \in added : ~(e[1] = lcall.kind /\ e[2] = TextOf(lcall.key))

\* C11: a retrieve of a key that was never added to its kind returns the
\* sentinel: 0 from the numeric retrieves, the null / empty string from the
\* text retrieve.
C11_AbsentReadsSentinel ==
    RetrievedAbsent => (lpc = "run" /\ lret = 0)

\* the C indices of the key cells of an array that hold a key
KeyCells(kind) == {i \in 0..(length - 1) : i % 2 = 0 /\ arrays[kind][i + 1] # 0}

\* C13: in each kind of the store a key has at most one entry, however often it
\* was written.
C13_KeysUnique ==
    \A k \in 1..Len(Kinds) : \A i, j \in KeyCells(Kinds[k]) :
        arrays[Kinds[k]][i + 1] = arrays[Kinds[k]][j + 1] => i = j

\* C14: while no handler is running, the integer state code and the label
\* stateDescript form one of the pairs (PREP, "PREP"), (ARMED, "ARMED"),
\* (BYPASS, "BYPASS").
C14_PairConsistentAtRest ==
    pc = "idle"
    => <<getLastInt(store, "state"), getLastString(store, "stateDescript")>> \in SyncPairs

\* the STATE handler has applied the first decoded value
StateApplied == handler = "STATE" /\ idx >= 2

\* the flight state a store holds: its code and its label
FlightState(s) == <<getLastInt(s, "state"), getLastString(s, "stateDescript")>>

\* C15: a STATE request whose first value names PREP, ARMED or BYPASS leaves the
\* machine in that state, whatever state the request found.
C15_AnyToAny ==
    \A target \in {PREP, ARMED, BYPASS} :
        (StateApplied /\ IntOf(values[1]) = target)
        => FlightState(store) = <<target, StateLabel(target)>>

\* a STATE request that found ARMED has put the machine back in PREP
C15_Witness ==
    /\ StateApplied /\ pc = "done" /\ ret = ESP_OK
    /\ FlightState(pre) = <<ARMED, S_ARMED>>
    /\ FlightState(store) = <<PREP, S_PREP>>

\* C16: a five-field STATE command changes nothing but the flight state: it
\* puts the machine in PREP, ARMED or BYPASS when the integer part of its first
\* value is 1, 2 or 3, and changes nothing at all otherwise, whatever its other
\* four values are.
C16_StateDispatch ==
    (handler = "STATE" /\ pc = "done" /\ ret = ESP_OK /\ Len(values) = NUM_FIELDS)
    => (/\ Rest(store.dbl, "state") = Rest(pre.dbl, "state")
        /\ Rest(store.int, "state") = Rest(pre.int, "state")
        /\ Rest(store.str, "stateDescript") = Rest(pre.str, "stateDescript")
        /\ IF values[1] >= PREP * Scale /\ values[1] < (BYPASS + 1) * Scale
           THEN \E t \in {PREP, ARMED, BYPASS} :
                   /\ t * Scale <= values[1] /\ values[1] < (t + 1) * Scale
                   /\ FlightState(store) = <<t, StateLabel(t)>>
           ELSE store = pre)

\* after arming and a token issue, first values 0 and 0.5 have changed nothing
\* although the other positions of the command hold 3, and first value 1 with
\* the other positions at 3 has requested PREP
C16_Witness ==
    /\ handler = "STATE" /\ pc = "done" /\ ret = ESP_OK /\ Len(values) = NUM_FIELDS
    /\ values[2] = 3 * Scale
    /\ \/ values[1] = 0 /\ getLastString(store, "stateDescript") = S_ARMED
       \/ values[1] = Scale /\ getLastString(pre, "stateDescript") = S_ARMED

\* a TOKEN request has returned
TokenDone == handler = "TOKEN" /\ pc = "done"

\* C17: a token request whose configuration check failed has sent no reply,
\* generated no token and left every register, arm_token included, as it was.
C17_IssueFailsClosed ==
    (TokenDone /\ flightConfig = 0)
    => (resp = <<>> /\ packed_data = <<>> /\ store = pre)

\* the check failed on a request made after a token had been issued
C17_Witness ==
    TokenDone /\ flightConfig = 0 /\ ret = ESP_OK /\ issued # <<>>

\* C18: a token request whose configuration check passed has replied with a
\* token of 6 characters, arm_token reads that token and is a text register
\* only, and every other register is as it was.
C18_IssueStoresAndReturns ==
    (TokenDone /\ flightConfig # 0)
    => (/\ resp = <<packed_data>> /\ Len(packed_data) = TOKEN_LEN
        /\ getLastString(store, "arm_token") = resp[1]
        /\ "arm_token" \notin (DOMAIN store.dbl) \cup (DOMAIN store.int)
        /\ Rest(store.str, "arm_token") = Rest(pre.str, "arm_token")
        /\ store.dbl = pre.dbl /\ store.int = pre.int)

\* a second issue has replaced a different token
C18_Witness ==
    /\ TokenDone /\ flightConfig # 0 /\ resp = <<packed_data>>
    /\ getLastString(pre, "arm_token") \notin {<<>>, packed_data}

\* C19: a verify request never changes arm_token, and as long as no other issue
\* has replaced the token S, a verify request carrying S is answered
\* STATE-CHANGE-SUCCESS and leaves stateDescript at "ARMED".
C19_TokenNotConsumed ==
    /\ handler = "AUTH" => getLastString(store, "arm_token") = getLastString(pre, "arm_token")
    /\ (AuthDone /\ issued = <<body>>)
       => (/\ resp = <<S_SUCCESS>>
           /\ getLastString(store, "stateDescript") = S_ARMED
           /\ getLastString(store, "arm_token") = body)

\* the second request after the issue is a verify with the token that re-arms a
\* machine the request before it left in ARMED, in PREP or in BYPASS
C19_Witness ==
    /\ AuthDone /\ issued = <<body>> /\ served = MaxRequests
    /\ resp = <<S_SUCCESS>>
    /\ getLastString(pre, "stateDescript") = S_BYPASS

\* C20: once httpd_req_recv has returned a value <= 0 other than the timeout
\* code, the request has ended with ESP_FAIL, no register has changed, nothing
\* was decoded and no reply was sent.
C20_RecvErrorAborts ==
    recv_fail # <<>>
    => (/\ pc = "done" /\ ret = ESP_FAIL
        /\ store = pre /\ values = <<>> /\ resp = <<>>)

\* the error came after part of the body of a verify request was received, in a
\* store that holds a token
C20_Witness ==
    /\ recv_fail # <<>> /\ pc = "done" /\ handler = "AUTH"
    /\ received > 0 /\ received < total_len
    /\ issued # <<>>

\* the position of the server task is a receive loop (or the statement after it)
InLoop == pc \in {"recv", "o_recv"}

\* the handler has returned, or has ended the process
Finished == pc \in {"done", "crashed", "rebooted"}

\* a step that leaves a receive loop: the declared length was received, or
\* httpd_req_recv / esp_ota_write returned an error other than the timeout
LoopExits ==
    /\ (pc = "recv" /\ pc' # "recv") => (received >= total_len \/ recv_fail' # <<>>)
    /\ (pc = "o_recv" /\ pc' # "o_recv") =>
          \/ written >= total_len
          \/ recv_fail' # <<>>
          \/ ota_calls'[Len(ota_calls')] = <<"write", ESP_FAIL>>

\* C21: a receive loop is left only when the declared length has been received
\* or a non-timeout error occurred, and, when the transport does not time out
\* forever, every handler that entered its loop ends (returns, or ends the
\* process); timeouts alone never end the loop.
C21_LoopEndsUnderFairness == [][LoopExits]_vars /\ (InLoop ~> Finished)

\* a handler returned after its loop received the whole declared body
C21_Witness ==
    /\ pc = "done" /\ ret = ESP_OK /\ handler = "AUTH"
    /\ called /\ total_len > 0 /\ received = total_len

\* the update handler has returned ESP_FAIL
UpdateFailed == handler = "OTA" /\ pc = "done" /\ ret = ESP_FAIL

\* C22: when a firmware update fails, the handler reports a server error, does
\* not restart the device, leaves the boot partition selection as it was, and
\* attempts no boot-partition switch after the validation step has failed.
C22_FailedUpdateLeavesBoot ==
    UpdateFailed =>
        /\ Len(resp) = 1 /\ resp[1][1] = "500"
        /\ \A i \in 1..Len(ota_calls) :
              /\ ota_calls[i][1] # "restart"
              /\ ota_calls[i] # <<"set_boot", ESP_OK>>
              /\ ota_calls[i] = <<"end", ESP_FAIL>> =>
                    \A j \in (i + 1)..Len(ota_calls) : ota_calls[j][1] # "set_boot"

\* C23: once the firmware-update handler has been entered, the server task
\* never leaves it: the handler does not return, so no other request is served
\* afterwards in the same process lifetime.
C23_UpdateNeverReturns ==
    [][handler = "OTA" => (handler' = "OTA" /\ ret' = NoRet)]_vars

\* C24: the device is restarted by the update handler only after, in this
\* order, the whole declared length was received and written, esp_ota_end
\* succeeded, the boot partition was switched and the completion reply was
\* sent; and the bytes written never exceed the declared length.
C24_RebootOnlyAfterSuccess ==
    /\ handler = "OTA" => (written <= total_len /\ written + remaining = total_len)
    /\ (\E i \in 1..Len(ota_calls) : ota_calls[i][1] = "restart") =>
          /\ written = total_len
          /\ ota_calls = << <<"begin", ESP_OK>>, <<"end", ESP_OK>>, <<"set_boot", ESP_OK>>,
                            <<"send", ESP_OK>>, <<"restart", ESP_OK>> >>
          /\ resp = <<S_COMPLETE>>
          /\ boot = "update"
    /\ pc = "rebooted" => ota_calls[Len(ota_calls)][1] = "restart"

\* the device restarted after an image longer than the buffer was written
C24_Witness == pc = "rebooted" /\ total_len > OTA_BUF_LEN /\ written = total_len

\* what the store holds under key k, in each of its kinds
KeyView(s, k) ==
    <<RegOf(s, k),
      IF k \in DOMAIN s.int THEN <<s.int[k]>> ELSE <<>>,
      IF k \in DOMAIN s.str THEN <<s.str[k]>> ELSE <<>> >>

\* C25: a telemetry query leaves the whole register store as it found it, and
\* the SWP and SYS handlers and token issuance leave `state` and
\* `stateDescript` as they found them, at every point of their execution.
C25_TelemetryFrame ==
    /\ handler \in TelemetryHandlers => store = pre
    /\ handler \in {"SWP", "SYS", "TOKEN"} =>
          /\ KeyView(store, "state") = KeyView(pre, "state")
          /\ KeyView(store, "stateDescript") = KeyView(pre, "stateDescript")

\* a telemetry query answered after a token was issued, and before it a
\* command or token request that wrote the store
C25_Witness ==
    /\ handler \in TelemetryHandlers /\ pc = "done" /\ resp # <<>>
    /\ "arm_token" \in DOMAIN store.str

\* C26: decoding the string packData returns for four identifiers without a
\* character of "0123456789.-" and four values yields the four identifiers
\* and the four values, in order.
C26_DecodeInvertsPack ==
    pc \in {"crashed", "unpacked"} =>
        /\ pc = "unpacked"
        /\ values = packs[1].vals
        /\ extractIds(packed_data) = packs[1].ids

C28_BootPrepNoTerminal ==
    /\ (served = 0 /\ pc = "idle") => FlightState(store) = <<PREP, S_PREP>>
    /\ \A t \in {PREP, ARMED, BYPASS} :
          FlightState(StateSwitch(store, t * Scale)) = <<t, StateLabel(t)>>

\* a STATE request that found BYPASS has put the machine in another state
C28_Witness ==
    /\ StateApplied /\ pc = "done" /\ ret = ESP_OK
    /\ FlightState(pre) = <<BYPASS, S_BYPASS>>
    /\ FlightState(store) \in {<<PREP, S_PREP>>, <<ARMED, S_ARMED>>}

\* C29: while no token has been issued (arm_token is absent when the request
\* arrives), a verify request whose body was received, the empty body
\* included, is answered STATE-CHANGE-FAIL and leaves the flight state as it was.
C29_NoVerifyWithoutToken ==
    (handler = "AUTH" /\ "arm_token" \notin DOMAIN pre.str) =>
        /\ KeyView(store, "state") = KeyView(pre, "state")
        /\ KeyView(store, "stateDescript") = KeyView(pre, "stateDescript")
        /\ AuthDone => resp = <<S_FAIL>>

\* C30: every httpd_req_recv call of an ingestion handler is offered no more
\* than the room left in received_data behind the write offset, and the
\* terminating NUL is written at an index below MAX_DATA_LEN.
C30_RecvStaysInBuffer ==
    /\ (pc = "recv" /\ received < total_len) => received + RecvOffered <= MAX_DATA_LEN
    /\ (pc = "recv" /\ received >= total_len) => received < MAX_DATA_LEN

\* the text of the value of one item, and the command data with its
\* identifier prefixes replaced by ids
ValueText(item) ==
    LET p == FirstIn(item, NumericStart, 1) IN
    IF p = 0 THEN <<>> ELSE SubSeq(item, p, Len(item))

RECURSIVE Join(_, _, _)
Join(ids, items, i) ==
    IF i > Len(items) THEN <<>>
    ELSE (IF i > 1 THEN <<"_">> ELSE <<>>)
         \o ids[i] \o ValueText(items[i]) \o Join(ids, items, i + 1)

Relabel(data, ids) == Join(ids, SplitItems(data), 1)

\* the store a five-field command leaves when position i alone decides the
\* register: keys[i] reads vals[i] when that is not 0 and is as before otherwise
PositionsDecide(keys, vals) ==
    /\ Len(vals) = NUM_FIELDS
    /\ \A i \in 1..NUM_FIELDS :
          RegOf(store, keys[i]) = IF vals[i] = 0 THEN RegOf(pre, keys[i]) ELSE <<vals[i]>>
    /\ \A k \in (DOMAIN store.dbl) \cup (DOMAIN pre.dbl) :
          (\A i \in 1..NUM_FIELDS : k # keys[i]) => RegOf(store, k) = RegOf(pre, k)
    /\ store.int = pre.int /\ store.str = pre.str

\* C31: the store a five-field SWP or SYS command leaves is the one its value
\* sequence gives by position, whatever identifier prefixes the fields carry:
\* the command with the same values under any other prefixes decodes to the
\* same values and so leaves the same store.
C31_PositionNotIdentifier ==
    IngestDone =>
        \A ids \in Labelings :
            /\ ~extractThrows(Relabel(CStr(Buf), ids))
            /\ PositionsDecide(IF handler = "SWP" THEN SWPKeys ELSE SYSKeys,
                               extractValues(Relabel(CStr(Buf), ids)))

\* a command whose first field carries the prefix of the last one has written
\* the first register and left the last one alone
C31_Witness ==
    /\ IngestDone /\ handler = "SWP"
    /\ extractIds(CStr(Buf))[1] = <<FieldIds[NUM_FIELDS]>>
    /\ values[1] # 0 /\ values[NUM_FIELDS] = 0
    /\ RegOf(store, SWPKeys[1]) = <<values[1]>> /\ RegOf(pre, SWPKeys[1]) # <<values[1]>>
    /\ RegOf(store, SWPKeys[NUM_FIELDS]) = RegOf(pre, SWPKeys[NUM_FIELDS])

\* C32: whenever the server task is between requests or a handler has
\* returned, no object a handler allocated with new is still live.
C32_HandlersReleaseObjects == pc \in {"idle", "done"} => live = 0

\* the C indices of the key cells of an array whose key has the characters of key
ContentCells(kind, key) ==
    {i \in KeyCells(kind) : TextOf(arrays[kind][i + 1]) = TextOf(key)}

\* C33: a text retrieve called with a key whose characters equal those of a key
\* held in the character array returns the value stored beside the first such
\* key, whether or not it is the same string object.
C33_RetrieveByContent ==
    (/\ lcall.op = "get" /\ lcall.kind = "character"
     /\ ContentCells("character", lcall.key) # {})
    => LET first == CHOOSE i \in ContentCells("character", lcall.key) :
                        \A j \in ContentCells("character", lcall.key) : i <= j
       IN  lret = arrays["character"][first + 2]

\* the steps of a transfer as documented
Documented == <<"start", "queue_cmd", "stop", "execute_transfer", "process_result">>

\* C34: what do_transfer has done to its command link is always a prefix of
\* start, queue_cmd, stop, execute_transfer, process_result; it returns the
\* value of process_result after all five; and whenever it has returned or
\* thrown, the command link it created is destroyed.
C34_TransferOrder ==
    /\ Len(steps) <= Len(Documented) /\ steps = SubSeq(Documented, 1, Len(steps))
    /\ xpc = "returned" => (steps = Documented /\ xret # <<>>)
    /\ xpc \in {"returned", "thrown"} => cmd_link # "live"

\* the last call made to the fan relay component, and its temperature
LastFanOp == fan_ops[Len(fan_ops)]

\* C35: over coolSierra_task calls the fan is switched on only by a reading
\* above 45 while it is off, switched off only by a reading below 35 while it
\* is on, a reading from 35 to 45 leaves the flag and the relay as they were,
\* and the relay is written exactly when the flag changes.
C35_Hysteresis ==
    [][fan_ops' # fan_ops =>
         LET t == fan_ops'[Len(fan_ops')][2] IN
         /\ (fanIsOn' /\ ~fanIsOn) => t > 45
         /\ (~fanIsOn' /\ fanIsOn) => t < 35
         /\ (35 <= t /\ t <= 45) =>
                (fanIsOn' = fanIsOn /\ relay' = relay /\ relay_writes' = relay_writes)
         /\ (relay_writes' # relay_writes) <=> (fanIsOn' # fanIsOn)]_vars

\* the fan went on at 46, stayed on at 45 and a reading of 34 switched it off
\* again: two relay writes were made
C35_Witness ==
    /\ fan_ops = <<(<<"cool", 46>>), (<<"cool", 45>>), (<<"cool", 34>>)>>
    /\ LastFanOp[2] < fanOffSetpoint
    /\ ~fanIsOn /\ relay = 0 /\ relay_writes = 2

\* C36: the flag fanIsOn is set exactly when the level last written to the
\* relay pin is 1, after any calls of fan_relay_on, fan_relay_off and
\* coolSierra_task.
C36_FlagMatchesRelay == fanIsOn <=> relay = 1

\* C37: after servo_control(target, pin) with pin in 0..3, GET_SERVO_POS(pin)
\* returns target and the positions of the other three pins are as before; with
\* any other pin no position changes and GET_SERVO_POS(pin) returns 0.
C37_ServoTracking ==
    [][(servo_call' # servo_call \/ SERVO_POS' # SERVO_POS) =>
         IF servo_call'.pin \in 0..3
         THEN /\ GET_SERVO_POS(SERVO_POS', servo_call'.pin) = servo_call'.target
              /\ \A q \in (0..3) \ {servo_call'.pin} : SERVO_POS'[q] = SERVO_POS[q]
         ELSE /\ SERVO_POS' = SERVO_POS
              /\ GET_SERVO_POS(SERVO_POS', servo_call'.pin) = 0]_vars

\* the value the add made by the last call stored: the data pointer of a text
\* add, the number itoa wrote for a numeric add
JustAdded ==
    LET k == lcall.kind
        at == LENs[k] - 2
    IN  IF at \notin 1..length THEN <<>>
        ELSE IF k = "character" THEN <<arrays[k][at]>>
        ELSE IF arrays[k][at] \in DOMAIN heap THEN <<heap[arrays[k][at]]>>
        ELSE <<>>

\* C38: every add writes its key and its value at two indices inside the array
\* of its kind and advances the 8-bit length counter by 2 without wrapping, and
\* a retrieve that follows an add with the same key returns the value added.
C38_AddsStayInside ==
    [][lops' # lops =>
         /\ lcall'.op = "add" =>
               /\ ~lcall'.stray /\ lpc' = "run"
               /\ LENs'[lcall'.kind] = LENs[lcall'.kind] + 2
         /\ (/\ lcall.op = "add" /\ lcall'.op = "get"
             /\ lcall'.kind = lcall.kind /\ lcall'.key = lcall.key)
            => (lpc' = "run" /\ <<lret'>> = JustAdded)]_vars

====
